---- MODULE Spec2Model ----
(***************************************************************************)
(* Verification model of the Estate-Scout agent backend:                   *)
(*   backend/graph/nodes.py      scout / inspector / broker / crm nodes    *)
(*   backend/graph/workflow.py   run_agent orchestration                   *)
(*   backend/tools/mongo_tool.py MongoDBTool (cache, preferences, memory)  *)
(*   backend/tools/search_tool.py search_properties and its extractors     *)
(*                                                                         *)
(* Texts are TLA+ strings; the regular expressions of the source are       *)
(* evaluated character by character with Len / SubSeq / Head / Tail.       *)
(*                                                                         *)
(* Specifications:                                                         *)
(*   SpecCriteria  criteria extraction of scout_node on one user text      *)
(*   SpecSearch    search_properties / extract_real_price on one request   *)
(*   SpecStore     MongoDBTool operations called directly, with a clock    *)
(*   Spec          run_agent requests of the one user "default"            *)
(*   SpecHistory   run_agent, long runs of searches and history queries    *)
(***************************************************************************)
EXTENDS Integers, Sequences, FiniteSets, TLC

VARIABLES
    \* criteria extraction on one text (SpecCriteria)
    exText,     \* the user text
    exToken,    \* the price token the text was written with, and its literal number
    exOut,      \* the outcome of the extraction, once it has run
    \* extract_max_results on one message (SpecCount)
    mrMessage,  \* the message
    mrAsked,    \* the number the message was written with and what it counts
    mrResult,   \* the count returned, once the function has run
    \* classify_intent on one message (SpecIntent)
    ciMessage,  \* the message
    ciResult,   \* what classify_intent returned, once it has run
    \* one call of search_properties (SpecSearch, and inside scout_node)
    spCall,     \* the arguments and the environment of the call
    spStatus,   \* idle | called | running | returned | raised
    spResults,  \* the provider's results (indices into ResultPool), in provider order
    spIdx,      \* the loop variable idx of "for idx, result in enumerate(...)" (0-based)
    spProps,    \* the list "properties" built so far; the returned list once returned
    spLog,      \* per provider result visited: skipped | extracted | clamped | synthesized
    \* the database (mongo_tool.py) and the clock, one user ("default")
    now,                  \* datetime.utcnow(), in hours
    search_cache,         \* collection search_cache: at most one document per search_hash
    cacheGet,             \* what the get_cached_search call just made returned
    conversation_memory,  \* the user's document of collection conversation_memory, or NoDoc
    memLog,               \* every record passed to save_conversation_memory, in call order
    memory_extra,         \* further documents of the user in conversation_memory (the
                          \* collection has no unique index), in insertion order
    savers,               \* per concurrent request inside save_conversation_memory:
                          \* [pc, memory, existing] (SpecRace)
    user_profiles,        \* the user's document of collection user_profiles, or NoDoc
    user_currencies,      \* the user's document of collection user_currencies, or NoDoc
    listings,             \* collection listings, in insertion order
    \* run_agent (workflow.py), one request at a time
    pc,         \* idle | scout | search | inspector | broker | crm | finish
    st,         \* the pipeline state dict handed from node to node
    reply,      \* what the last run_agent call returned (or that it raised)
    invoked,    \* the stages the current request has invoked so far, in order
    nRequests,  \* the number of run_agent calls that entered the search path
    completed,  \* [message, criteria] of every search request that returned, in order
    \* the graph library of the build (state.py: AgentState declares neither
    \* search_criteria nor from_cache nor user_id)
    undeclared_keys,  \* "kept" | "dropped": what becomes of a key a node returns
                      \* that AgentState does not declare
    \* the BrowserTool of the current request's inspector_node (browser_tool.py)
    browser     \* how often it was started and closed, what it opened and closed

criteriaVars == <<exText, exToken, exOut, mrMessage, mrAsked, mrResult, ciMessage, ciResult>>

searchVars == <<spCall, spStatus, spResults, spIdx, spProps, spLog>>

cacheVars == <<search_cache, cacheGet>>

memoryVars == <<conversation_memory, memLog, memory_extra, savers>>

dbVars == <<user_profiles, user_currencies, listings>>

agentVars == <<pc, st, reply, invoked, nRequests, completed, undeclared_keys, browser>>

vars == <<exText, exToken, exOut, mrMessage, mrAsked, mrResult, ciMessage, ciResult, spCall, spStatus, spResults, spIdx, spProps, spLog,
          now, search_cache, cacheGet, conversation_memory, memLog, memory_extra, savers,
          user_profiles, user_currencies, listings, pc, st, reply, invoked, nRequests, completed,
          undeclared_keys, browser>>

(***************************************************************************)
(* Values of the variables while their part of the program is not running  *)
(***************************************************************************)
\* the key is missing from a dict
Absent == "<absent>"

NoToken == [txt |-> "", n |-> 0]

NoRaw == [location |-> Absent, max_price |-> [t |-> "absent", v |-> 0],
          bedrooms |-> Absent, requirements |-> Absent]

NoCriteria == [location |-> "", max_price |-> 0, bedrooms |-> "", requirements |-> ""]

NoOut == [done |-> FALSE, llm |-> [kind |-> "unavailable", raw |-> NoRaw], raised |-> FALSE,
          criteria |-> NoCriteria]

NoAsked == [n |-> 0, unit |-> ""]

NoResult == [done |-> FALSE, n |-> 0]

IdleCount == mrMessage = "" /\ mrAsked = NoAsked /\ mrResult = NoResult

NoIntent == [done |-> FALSE]

IdleIntent == ciMessage = "" /\ ciResult = NoIntent

IdleExtract == exText = "" /\ exToken = NoToken /\ exOut = NoOut

IdleCriteria == IdleExtract /\ IdleCount /\ IdleIntent

\* max_price=None
NonePrice == -1

NoCall == [query |-> "", max_price |-> 0, max_results |-> 0, credential |-> "ok"]

IdleSearch ==
    /\ spCall = NoCall /\ spStatus = "idle" /\ spResults = <<>>
    /\ spIdx = 0 /\ spProps = <<>> /\ spLog = <<>>

\* find_one found no document
NoDoc == [exists |-> FALSE]

NoGet == [called |-> FALSE]

EmptyCache == now = 0 /\ search_cache = {} /\ cacheGet = NoGet

\* the requests that may be inside save_conversation_memory at the same time
Requests == { 1, 2 }

NoSaver == [pc |-> "out", memory |-> [empty |-> TRUE], existing |-> NoDoc]

EmptyMemory ==
    /\ conversation_memory = NoDoc /\ memLog = <<>>
    /\ memory_extra = <<>> /\ savers = [ r \in Requests |-> NoSaver ]

EmptyDb == user_profiles = NoDoc /\ user_currencies = NoDoc /\ listings = <<>>

\* {}
EmptyDict == [empty |-> TRUE]

\* a preferences dict; a key that is missing reads as FALSE, <<>> or 0
EmptyPrefs == [has_pet |-> FALSE, preferred_locations |-> <<>>, budget_history |-> <<>>,
               typical_budget |-> 0, preferred_bedrooms |-> <<>>]

NoState == [message |-> "", intent |-> "", properties |-> <<>>, user_preferences |-> EmptyPrefs,
            current_step |-> "", screenshots |-> <<>>, folders_created |-> <<>>,
            currency |-> [code |-> "", symbol |-> ""], conversation_memory |-> EmptyDict,
            search_criteria |-> NoCriteria, from_cache |-> "absent"]

NoReply == [kind |-> "none"]

\* BrowserTool.__init__: nothing opened
NoBrowser == [starts |-> 0, opened |-> {}, closes |-> 0, closed |-> {}, teardown |-> "none"]

AgentAtRest == pc = "idle" /\ st = NoState /\ reply = NoReply /\ invoked = <<>> /\ nRequests = 0
               /\ completed = <<>> /\ browser = NoBrowser

IdleAgent == AgentAtRest /\ undeclared_keys = "kept"

(***************************************************************************)
(* Strings                                                                 *)
(***************************************************************************)
Ch(s, i) == SubSeq(s, i, i)

UpperChars == "ABCDEFGHIJKLMNOPQRSTUVWXYZ"

LowerChars == "abcdefghijklmnopqrstuvwxyz"

DigitChars == "0123456789"

CharsOf(s) == { Ch(s, i) : i \in 1..Len(s) }

Digits == CharsOf(DigitChars)

Letters == CharsOf(UpperChars) \cup CharsOf(LowerChars)

\* \w of the re module
WordChars == Letters \cup Digits \cup {"_"}

\* \s of the re module (the texts use blanks only)
Whitespace == {" "}

IndexIn(s, c) == CHOOSE i \in 1..Len(s) : Ch(s, i) = c

DigitVal(c) == IndexIn(DigitChars, c) - 1

LowerCh(c) == IF c \in CharsOf(UpperChars) THEN Ch(LowerChars, IndexIn(UpperChars, c)) ELSE c

UpperCh(c) == IF c \in CharsOf(LowerChars) THEN Ch(UpperChars, IndexIn(LowerChars, c)) ELSE c

RECURSIVE Lower(_)
\* str.lower()
Lower(s) == IF s = "" THEN "" ELSE LowerCh(Head(s)) \o Lower(Tail(s))

RECURSIVE LStrip(_)
LStrip(s) == IF s # "" /\ Head(s) \in Whitespace THEN LStrip(Tail(s)) ELSE s

RECURSIVE RStrip(_)
RStrip(s) == IF s # "" /\ Ch(s, Len(s)) \in Whitespace THEN RStrip(SubSeq(s, 1, Len(s) - 1)) ELSE s

\* str.strip()
Strip(s) == RStrip(LStrip(s))

\* sub in s
Contains(s, sub) == \E i \in 1..(Len(s) - Len(sub) + 1) : SubSeq(s, i, i + Len(sub) - 1) = sub

\* s[i:].startswith(sub), 1-based
StartsAt(s, i, sub) == i >= 1 /\ i + Len(sub) - 1 <= Len(s) /\ SubSeq(s, i, i + Len(sub) - 1) = sub

\* any(w in s for w in ws)
ContainsAny(s, ws) == \E w \in ws : Contains(s, w)

RECURSIVE RemoveChar(_, _)
\* str.replace(c, '')
RemoveChar(s, c) == IF s = "" THEN "" ELSE (IF Head(s) = c THEN "" ELSE Head(s)) \o RemoveChar(Tail(s), c)

RECURSIVE ParseDigits(_)
\* int() of a string of decimal digits
ParseDigits(s) == IF s = "" THEN 0 ELSE 10 * ParseDigits(SubSeq(s, 1, Len(s) - 1)) + DigitVal(Ch(s, Len(s)))

\* first index >= i whose character is not whitespace (Len(s)+1 when none)
SkipWs(s, i) ==
    CHOOSE j \in i..(Len(s) + 1) :
        /\ \A k \in i..(j - 1) : Ch(s, k) \in Whitespace
        /\ (j = Len(s) + 1 \/ Ch(s, j) \notin Whitespace)

Min(S) == CHOOSE x \in S : \A y \in S : x <= y

Max2(a, b) == IF a >= b THEN a ELSE b

Min2(a, b) == IF a <= b THEN a ELSE b

(***************************************************************************)
(* nodes.py: the price pattern  \$?([\d,]+)k?  of _validate_criteria and   *)
(* extract_criteria_simple.  re.search returns the leftmost match, whose   *)
(* group 1 is the first maximal run of digits and commas of the text.      *)
(***************************************************************************)
PriceRunChars == Digits \cup {","}

\* positions where a run of [\d,] starts
PriceRunStarts(s) == { i \in 1..Len(s) : Ch(s, i) \in PriceRunChars }

PriceRunEnd(s, i) ==
    CHOOSE j \in i..Len(s) :
        /\ \A k \in i..j : Ch(s, k) \in PriceRunChars
        /\ (j = Len(s) \/ Ch(s, j + 1) \notin PriceRunChars)

\* price_match: whether the pattern matches, and group(1)
PriceMatch(s) ==
    IF PriceRunStarts(s) = {} THEN [found |-> FALSE, group |-> ""]
    ELSE LET i == Min(PriceRunStarts(s))
         IN [found |-> TRUE, group |-> SubSeq(s, i, PriceRunEnd(s, i))]

\* int(group.replace(',', '')), then "if price < 100: price = price * 1000".
\* int('') raises ValueError: a run made of commas only.
UserPrice(s) ==
    LET m == PriceMatch(s)
        d == RemoveChar(m.group, ",")
        n == ParseDigits(d)
    IN IF ~m.found THEN [found |-> FALSE, raised |-> FALSE, price |-> 0]
       ELSE IF d = "" THEN [found |-> TRUE, raised |-> TRUE, price |-> 0]
       ELSE [found |-> TRUE, raised |-> FALSE, price |-> IF n < 100 THEN n * 1000 ELSE n]

DefaultMaxPrice == 2500

(***************************************************************************)
(* nodes.py: extract_criteria_simple, the regex-only extractor             *)
(***************************************************************************)
LocationClass == Letters \cup Whitespace

\* (?:\s+under|\s+apartment|\s+for|\s*,|$) matches at position i
LocationTerminator(s, i) ==
    LET j == SkipWs(s, i)
    IN \/ (j > i /\ \E w \in {"under", "apartment", "for"} : StartsAt(s, j, w))
       \/ StartsAt(s, j, ",")
       \/ i = Len(s) + 1

\* the (group start, group end) pairs with which  kw\s+([A-Za-z\s]+?)(?:...)
\* matches when kw is found at position p
LocationGroups(s, kw, p) ==
    { ge \in ((p + Len(kw) + 1)..SkipWs(s, p + Len(kw))) \X (1..Len(s)) :
        /\ ge[1] <= ge[2]
        /\ \A k \in ge[1]..ge[2] : Ch(s, k) \in LocationClass
        /\ LocationTerminator(s, ge[2] + 1) }

LocationMatchStarts(s, kw) ==
    { p \in 1..Len(s) : StartsAt(s, p, kw) /\ LocationGroups(s, kw, p) # {} }

\* match.group(1) of re.search: leftmost start, greedy \s+, lazy group
LocationGroup(s, kw) ==
    LET p  == Min(LocationMatchStarts(s, kw))
        gs == LocationGroups(s, kw, p)
        g  == CHOOSE x \in { ge[1] : ge \in gs } : \A ge \in gs : ge[1] <= x
        e  == Min({ ge[2] : ge \in { y \in gs : y[1] = g } })
    IN SubSeq(s, g, e)

\* re.sub(r'\s+(under|apartment|for|the)\s*$', '', location)
StripTrailingWord(s) ==
    LET t    == RStrip(s)
        hits == { w \in {"under", "apartment", "for", "the"} :
                    /\ Len(t) > Len(w)
                    /\ StartsAt(t, Len(t) - Len(w) + 1, w)
                    /\ Ch(t, Len(t) - Len(w)) \in Whitespace }
    IN IF hits = {} THEN s
       ELSE LET w == CHOOSE x \in hits : TRUE
            IN RStrip(SubSeq(t, 1, Len(t) - Len(w)))

LocationKeywords == <<"in", "at", "near">>

Cities == <<"brooklyn", "austin", "zurich", "switzerland", "london",
            "paris", "tokyo", "berlin", "madrid", "rome", "boston",
            "seattle", "chicago", "miami", "denver", "new york",
            "san francisco", "los angeles", "toronto", "vancouver">>

RECURSIVE TitleFrom(_, _)
\* str.title(): a letter is upper-cased after a non-letter, lower-cased after a letter
TitleFrom(s, prevLetter) ==
    IF s = "" THEN ""
    ELSE (IF prevLetter THEN LowerCh(Head(s)) ELSE UpperCh(Head(s)))
             \o TitleFrom(Tail(s), Head(s) \in Letters)

Title(s) == TitleFrom(s, FALSE)

NotSpecified == "Not specified"

SimpleLocation(message) ==
    LET lower == Lower(message)
        kws   == { k \in 1..Len(LocationKeywords) : LocationMatchStarts(lower, LocationKeywords[k]) # {} }
        byRe  == IF kws = {} THEN ""
                 ELSE Strip(StripTrailingWord(Strip(LocationGroup(lower, LocationKeywords[Min(kws)]))))
        cs    == { k \in 1..Len(Cities) : Contains(lower, Cities[k]) }
    IN IF byRe # "" THEN byRe
       ELSE IF cs # {} THEN Title(Cities[Min(cs)])
       ELSE NotSpecified

\* \bd\b : the digit d with no word character on either side
LoneDigit(s, d) ==
    \E i \in 1..Len(s) :
        /\ Ch(s, i) = d
        /\ (i = 1 \/ Ch(s, i - 1) \notin WordChars)
        /\ (i = Len(s) \/ Ch(s, i + 1) \notin WordChars)

\* word\s*bed
WordThenBed(s, w) ==
    \E i \in 1..Len(s) : StartsAt(s, i, w) /\ StartsAt(s, SkipWs(s, i + Len(w)), "bed")

SimpleBedrooms(message) ==
    LET lower == Lower(message)
    IN IF Contains(lower, "studio") THEN "1"
       ELSE IF LoneDigit(lower, "2") \/ WordThenBed(lower, "two") THEN "2"
       ELSE IF LoneDigit(lower, "3") \/ WordThenBed(lower, "three") THEN "3"
       ELSE "1"

PetWords == {"pet", "dog", "cat"}

SimpleRequirements(message) ==
    IF ContainsAny(Lower(message), PetWords) THEN "pet friendly" ELSE "none"

\* extract_criteria_simple: [raised, criteria]; int('') raises ValueError
extract_criteria_simple(message) ==
    LET up == UserPrice(message)
    IN [raised   |-> up.raised,
        criteria |-> [location     |-> SimpleLocation(message),
                      max_price    |-> IF up.found THEN up.price ELSE DefaultMaxPrice,
                      bedrooms     |-> SimpleBedrooms(message),
                      requirements |-> SimpleRequirements(message)]]

(***************************************************************************)
(* nodes.py: _validate_criteria on the object decoded from the generative  *)
(* output.  A max_price of the object is a tagged value:                   *)
(*   absent | int v | numstr v (a string int() accepts) | badstr | null    *)
(***************************************************************************)
\* int(raw["max_price"]) with "except (TypeError, ValueError): 2500"
IntOrDefault(mp) ==
    IF mp.t \in {"int", "numstr"} THEN mp.v ELSE DefaultMaxPrice

SetDefault(v, d) == IF v = Absent THEN d ELSE v

_validate_criteria(raw, user_message) ==
    LET up == UserPrice(user_message)
        mp == IF up.found THEN up.price
              ELSE IF raw.max_price.t = "absent" THEN DefaultMaxPrice
              ELSE IntOrDefault(raw.max_price)
    IN [raised   |-> up.raised,
        criteria |-> [location     |-> SetDefault(raw.location, NotSpecified),
                      max_price    |-> mp,
                      bedrooms     |-> SetDefault(raw.bedrooms, "1"),
                      requirements |-> SetDefault(raw.requirements, "none")]]

(***************************************************************************)
(* nodes.py: scout_node, lines 154-194: the criteria of one user text for  *)
(* one outcome of the generative step:                                     *)
(*   unavailable  llm is None                                              *)
(*   error        the call raises, or its text is not JSON                 *)
(*   nonobject    JSON that is no object (item assignment / setdefault     *)
(*                raise inside _validate_criteria)                         *)
(*   object       a JSON object, raw                                       *)
(***************************************************************************)
ScoutCriteria(message, llmOut) ==
    IF llmOut.kind = "object" /\ ~_validate_criteria(llmOut.raw, message).raised
    THEN _validate_criteria(llmOut.raw, message)
    ELSE extract_criteria_simple(message)

(***************************************************************************)
(* search_tool.py: extract_real_price.  The six price patterns, matched    *)
(* with re.IGNORECASE, all capture  NUM = \d{1,2},?\d{3} .  SYM is the     *)
(* class of currency symbols; the texts of the model are ASCII.            *)
(***************************************************************************)
CurrencySymbols == {"$"}

AllDigits(s, a, b) == a >= 1 /\ b <= Len(s) /\ \A k \in a..b : Ch(s, k) \in Digits

\* last index of NUM matched at i with h leading digits (0: no match)
NumEnd(s, i, h) ==
    LET c == i + h
        d == IF StartsAt(s, c, ",") THEN c + 1 ELSE c
    IN IF AllDigits(s, i, c - 1) /\ AllDigits(s, d, d + 2) THEN d + 2 ELSE 0

NumValue(s, i, e) == ParseDigits(RemoveChar(SubSeq(s, i, e), ","))

\* index after an optional currency symbol / an optional character of cs at j
SkipOpt(s, j, cs) == IF j <= Len(s) /\ Ch(s, j) \in cs THEN j + 1 ELSE j

\* where NUM starts when pattern k matches at position p (0: the prefix fails)
NumStart(k, s, p) ==
    CASE k \in {1, 2, 3} -> IF p <= Len(s) /\ Ch(s, p) \in CurrencySymbols THEN SkipWs(s, p + 1) ELSE 0
      [] k = 4 -> IF StartsAt(s, p, "rent")
                  THEN SkipWs(s, SkipOpt(s, SkipWs(s, SkipOpt(s, SkipWs(s, p + 4), {":", ";"})), CurrencySymbols))
                  ELSE 0
      [] k = 5 -> p
      [] k = 6 -> SkipOpt(s, p, CurrencySymbols)

CurrencyWords == {"dollar", "euro", "pound", "rupee"}

\* last index of the match of what pattern k wants after NUM ended at e (0: fails)
SuffixEnd(k, s, e) ==
    LET j == SkipWs(s, e + 1)
    IN CASE k = 1 -> IF StartsAt(s, SkipOpt(s, j, {"/"}), "mo") THEN SkipOpt(s, j, {"/"}) + 1 ELSE 0
         [] k = 2 -> LET m == SkipWs(s, SkipOpt(s, j, {"/"}))
                     IN IF StartsAt(s, m, "month") THEN m + 4
                        ELSE IF StartsAt(s, j, "month") THEN j + 4 ELSE 0
         [] k = 3 -> IF StartsAt(s, j, "per") /\ StartsAt(s, SkipWs(s, j + 3), "month")
                     THEN SkipWs(s, j + 3) + 4 ELSE 0
         [] k = 5 -> LET ws == { w \in CurrencyWords : StartsAt(s, j, w) }
                         a  == IF ws # {} THEN SkipOpt(s, j + Len(CHOOSE w \in ws : TRUE), {"s"})
                               ELSE IF StartsAt(s, j, "yen") THEN j + 3 ELSE 0
                         m  == SkipWs(s, SkipOpt(s, SkipWs(s, a), {"/"}))
                     IN IF a # 0 /\ StartsAt(s, m, "month") THEN m + 4 ELSE 0
         [] k \in {4, 6} -> e

\* the match of pattern k starting at p: greedy \d{1,2} first, then one digit
MatchAt(k, s, p) ==
    LET i  == NumStart(k, s, p)
        e2 == IF i = 0 THEN 0 ELSE NumEnd(s, i, 2)
        e1 == IF i = 0 THEN 0 ELSE NumEnd(s, i, 1)
    IN IF e2 # 0 /\ SuffixEnd(k, s, e2) # 0
       THEN [ok |-> TRUE, last |-> SuffixEnd(k, s, e2), num |-> NumValue(s, i, e2)]
       ELSE IF e1 # 0 /\ SuffixEnd(k, s, e1) # 0
       THEN [ok |-> TRUE, last |-> SuffixEnd(k, s, e1), num |-> NumValue(s, i, e1)]
       ELSE [ok |-> FALSE, last |-> 0, num |-> 0]

RECURSIVE FindAll(_, _, _)
\* re.findall(pattern k, s) from position pos on: the captured numbers in order
FindAll(k, s, pos) ==
    LET ps == { p \in pos..Len(s) : MatchAt(k, s, p).ok }
    IN IF ps = {} THEN <<>>
       ELSE LET m == MatchAt(k, s, Min(ps))
            IN <<m.num>> \o FindAll(k, s, m.last + 1)

NumPricePatterns == 6

RECURSIVE PatternMatches(_, _)
\* every match of every pattern on one source, in the order the loops visit them
PatternMatches(s, k) ==
    IF k > NumPricePatterns THEN <<>> ELSE FindAll(k, Lower(s), 1) \o PatternMatches(s, k + 1)

MinPlausiblePrice == 400

MaxPlausiblePrice == 15000

PlausiblePrices(content, title) ==
    SelectSeq(PatternMatches(content, 1) \o PatternMatches(title, 1),
              LAMBDA n : MinPlausiblePrice <= n /\ n <= MaxPlausiblePrice)

\* floor = max(400, int(max_price * 0.60))
PriceFloor(max_price) == Max2(MinPlausiblePrice, (max_price * 6) \div 10)

PriceStep == 50

\* the values random.randint(floor, max_price) can return (none: it raises)
PriceDraws(max_price) == PriceFloor(max_price)..max_price

\* (estimated_price // 50) * 50
SynthesizedPrice(draw) == (draw \div PriceStep) * PriceStep

\* min(price, max_price)
\* the extracted price returned as found
CapPriceUncapped(price, max_price) == price

CapPrice(price, max_price) == Min2(price, max_price)

\* lines 140-161 of extract_real_price, given the plausible prices the patterns
\* found: [raised, price]; draw is what random.randint returned
PriceFrom(found, max_price, draw) ==
    IF found # <<>> THEN [raised |-> FALSE, price |-> CapPrice(Head(found), max_price)]
    ELSE IF PriceDraws(max_price) = {} THEN [raised |-> TRUE, price |-> 0]
    ELSE [raised |-> FALSE, price |-> SynthesizedPrice(draw)]

extract_real_price(content, title, max_price, draw) ==
    PriceFrom(PlausiblePrices(content, title), max_price, draw)

(***************************************************************************)
(* search_tool.py: _is_irrelevant_result, is_pet_friendly                  *)
(***************************************************************************)
IrrelevantKeywords ==
    { "emissions standards", "federal register", "epa ", "sec filing",
      "10-k ", "annual report", "privacy policy", "terms of service",
      "cookie policy", "wikipedia", "how to", "what is", "tutorial" }

IrrelevantDomains == { "federalregister.gov", "wikipedia.org", "irs.gov", "sec.gov" }

_is_irrelevant_result(title, content, url) ==
    \/ ContainsAny(Lower(title \o " " \o content), IrrelevantKeywords)
    \/ ContainsAny(Lower(url), IrrelevantDomains)

PetKeywords == { "pet friendly", "pets allowed", "pet ok", "dogs allowed", "cats allowed", "pet-friendly" }

is_pet_friendly(content, query) ==
    \/ ContainsAny(Lower(content), PetKeywords)
    \/ ContainsAny(Lower(query), PetWords)

(***************************************************************************)
(* search_tool.py: search_properties, one step per provider result         *)
(***************************************************************************)
\* what the provider can return: title, content, url
ResultPool ==
    << [title |-> "Spacious 2BR in Austin - Zillow", content |-> "Rent: $1,850/mo, pets allowed", url |-> "zillow.com/a"],
       [title |-> "Loft from $2,400 per month", content |-> "Sunny loft close to the park", url |-> "rent.com/b"],
       [title |-> "Quiet flat", content |-> "Call for details about this quiet flat", url |-> "example.com/c"],
       [title |-> "Privacy Policy", content |-> "Rent $900 month", url |-> "example.com/privacy"] >>

\* seq[:n]
Take(seq, n) == SubSeq(seq, 1, Min2(Len(seq), Max2(n, 0)))

\* lines 31-32: max_price = extract_price_from_query(query) or 2500
EffectiveMaxPrice(call) ==
    IF call.max_price # NonePrice THEN call.max_price
    ELSE IF UserPrice(call.query).found /\ UserPrice(call.query).price # 0 THEN UserPrice(call.query).price
    ELSE DefaultMaxPrice

\* lines 22-39: the credential check, the local max_price, then the provider
\* call.  resp is the provider's answer: [error, results].
SearchProvider(resp) ==
    /\ spStatus = "called"
    /\ IF spCall.credential # "ok"
       THEN spStatus' = "raised" /\ UNCHANGED <<spResults, spCall>>
       ELSE IF spCall.max_price = NonePrice /\ UserPrice(spCall.query).raised
       THEN spStatus' = "raised" /\ UNCHANGED <<spResults, spCall>>
       ELSE /\ spCall' = [spCall EXCEPT !.max_price = EffectiveMaxPrice(spCall)]
            /\ IF resp.error
               THEN spStatus' = "raised" /\ UNCHANGED spResults
               ELSE spStatus' = "running" /\ spResults' = resp.results
    /\ spIdx' = 0 /\ spProps' = <<>> /\ spLog' = <<>>

\* what the extractors find in each result of the pool (query-independent part)
PoolFeatures ==
    [ i \in 1..Len(ResultPool) |->
        [irrelevant |-> _is_irrelevant_result(ResultPool[i].title, ResultPool[i].content, ResultPool[i].url),
         prices     |-> PlausiblePrices(ResultPool[i].content, ResultPool[i].title)] ]

\* the result visited by the current iteration
CurrentResult == spResults[spIdx + 1]

\* lines 47-49: the result is skipped
SearchSkip ==
    /\ spStatus = "running" /\ spIdx < Len(spResults)
    /\ PoolFeatures[CurrentResult].irrelevant
    /\ spLog' = Append(spLog, "skipped")
    /\ spIdx' = spIdx + 1
    /\ UNCHANGED <<spCall, spResults, spProps, spStatus>>

\* lines 51-63: the result becomes a candidate; draw is what random.randint
\* returns when extract_real_price has to synthesize the price
SearchCandidate(draw) ==
    /\ spStatus = "running" /\ spIdx < Len(spResults)
    /\ \E features \in {PoolFeatures[CurrentResult]} :
        /\ ~features.irrelevant
        /\ \E p \in {PriceFrom(features.prices, spCall.max_price, draw)} :
            LET r     == ResultPool[CurrentResult]
                kind  == IF features.prices = <<>> THEN "synthesized"
                         ELSE IF Head(features.prices) > spCall.max_price THEN "clamped"
                         ELSE "extracted"
            IN IF p.raised
               THEN spStatus' = "raised" /\ UNCHANGED <<spProps, spLog>>
               ELSE /\ spProps' = Append(spProps, [id |-> spIdx + 1, price |-> p.price,
                                                   pet_friendly |-> is_pet_friendly(r.content, spCall.query),
                                                   url |-> r.url])
                    /\ spLog' = Append(spLog, kind)
                    /\ UNCHANGED spStatus
    /\ spIdx' = spIdx + 1
    /\ UNCHANGED <<spCall, spResults>>

\* the cap applied to the provider's results instead of the candidates: the
\* loop stops after max_results results, rejected ones included
SearchReturnCapFirst ==
    /\ spStatus = "running" /\ spIdx = Min2(Len(spResults), spCall.max_results)
    /\ spProps' = spProps
    /\ spStatus' = "returned"
    /\ UNCHANGED <<spCall, spResults, spIdx, spLog>>

\* lines 65-74: the truncation and the return
SearchReturn ==
    /\ spStatus = "running" /\ spIdx = Len(spResults)
    /\ spProps' = Take(spProps, spCall.max_results)
    /\ spStatus' = "returned"
    /\ UNCHANGED <<spCall, spResults, spIdx, spLog>>

\* the draws that lead to different outcomes of the current iteration: one per
\* synthesized price when the price is synthesized, else a single one
DistinctDraws ==
    IF spStatus = "running" /\ spIdx < Len(spResults)
       /\ PoolFeatures[CurrentResult].prices = <<>> /\ PriceDraws(spCall.max_price) # {}
    THEN LET ds == PriceDraws(spCall.max_price)
         IN { Min({ d \in ds : SynthesizedPrice(d) = v }) : v \in { SynthesizedPrice(d) : d \in ds } }
    ELSE {0}

SearchStep ==
    \/ SearchSkip
    \/ \E draw \in DistinctDraws : SearchCandidate(draw)
    \/ SearchReturn

(***************************************************************************)
(* SpecSearch: one call of search_properties                               *)
(***************************************************************************)
MaxProviderResults == 3

MaxResultsAsked == 2

SearchQueries == { "2 bedroom apartment in Austin under 2000", "1 bedroom apartment in Decatur under 450" }

SearchMaxPrices == { 300, 450, 730, 1900, NonePrice }

RECURSIVE SeqsUpTo(_, _)
\* the sequences of distinct elements of S of length at most n
SeqsUpTo(S, n) ==
    IF n = 0 THEN { <<>> }
    ELSE LET shorter == SeqsUpTo(S, n - 1)
             longest == { t \in shorter : Len(t) = n - 1 }
         IN shorter \cup UNION { { Append(q, x) : x \in S \ { q[i] : i \in 1..Len(q) } } : q \in longest }

ProviderResponses(n) ==
    { [error |-> TRUE, results |-> <<>>] }
    \cup { [error |-> FALSE, results |-> q] : q \in SeqsUpTo(1..Len(ResultPool), n) }

InitSearch ==
    /\ spCall \in [query : SearchQueries, max_price : SearchMaxPrices,
                    max_results : 1..MaxResultsAsked, credential : {"ok"}]
               \cup [query : SearchQueries, max_price : {NonePrice},
                      max_results : {1}, credential : {"absent", "placeholder"}]
    /\ spStatus = "called" /\ spResults = <<>>
    /\ spIdx = 0 /\ spProps = <<>> /\ spLog = <<>>
    /\ IdleCriteria /\ EmptyCache /\ EmptyMemory /\ EmptyDb /\ IdleAgent

NextSearch ==
    \/ (\E resp \in ProviderResponses(MaxProviderResults) : SearchProvider(resp))
           /\ UNCHANGED <<criteriaVars, now, cacheVars, memoryVars, dbVars, agentVars>>
    \/ SearchStep /\ UNCHANGED <<criteriaVars, now, cacheVars, memoryVars, dbVars, agentVars>>

SpecSearch == InitSearch /\ [][NextSearch]_vars

\* C2: every candidate search_properties returns has price <= the requested
\* max_price, whether the price was extracted and clamped or synthesized.
C2_PriceWithinCap ==
    spStatus = "returned" =>
        \A i \in 1..Len(spProps) : spProps[i].price <= spCall.max_price

\* a returned list that holds a clamped and a synthesized candidate
C2_Witness ==
    /\ spStatus = "returned" /\ Len(spProps) >= 2
    /\ \E i, j \in 1..Len(spLog) : spLog[i] = "clamped" /\ spLog[j] = "synthesized"
    /\ \E i \in 1..Len(spProps) : spProps[i].price = spCall.max_price

\* the provider's results that pass the irrelevance filter, in provider order
RelevantResults ==
    SelectSeq(spResults, LAMBDA i :
        ~_is_irrelevant_result(ResultPool[i].title, ResultPool[i].content, ResultPool[i].url))

\* C16: search_properties returns, in provider order, the first max_results of
\* the provider's results that pass the irrelevance filter: at most max_results
\* candidates, rejected results never count, truncation comes after filtering.
C16_FirstRelevantInOrder ==
    spStatus = "returned" =>
        /\ Len(spProps) <= spCall.max_results
        /\ Len(spProps) = Min2(Len(RelevantResults), spCall.max_results)
        /\ \A k \in 1..Len(spProps) : spProps[k].url = ResultPool[RelevantResults[k]].url

\* a rejected result came first, two results passed the filter and only the
\* first of them was returned
C16_Witness ==
    /\ spStatus = "returned" /\ spCall.max_results = 1 /\ Len(spProps) = 1
    /\ Len(spLog) = 3 /\ spLog[1] = "skipped" /\ spLog[2] # "skipped" /\ spLog[3] # "skipped"
    /\ spProps[1].url = ResultPool[spResults[2]].url

(***************************************************************************)
(* SpecCriteria: one user text, written around a price token, and every    *)
(* outcome of the generative step.                                         *)
(***************************************************************************)
\* a price token as the user types it, with the number it spells
PriceTokens ==
    { [txt |-> "$2000", n |-> 2000], [txt |-> "$1,500", n |-> 1500],
      [txt |-> "2k", n |-> 2],       [txt |-> "$85", n |-> 85],
      [txt |-> "$950", n |-> 950] }

TextLeads ==
    { "", "apartment in Austin under ", "2 bedroom apartment in Austin under ",
      "3 bedroom apartment in Austin under ", "two bed flat near Boston for ",
      "studio in Boston, max " }

TextTrails == { "", " pet friendly", " show me 3 listings" }

ProposedPrices ==
    { [t |-> "absent", v |-> 0], [t |-> "int", v |-> 1800], [t |-> "int", v |-> 2000],
      [t |-> "numstr", v |-> 2200], [t |-> "badstr", v |-> 0], [t |-> "null", v |-> 0] }

LlmObjects ==
    [location : {"Austin", Absent}, max_price : ProposedPrices,
     bedrooms : {"2", Absent}, requirements : {"pet friendly", Absent}]

LlmOutcomes ==
    { [kind |-> k, raw |-> NoRaw] : k \in {"unavailable", "error", "nonobject"} }
    \cup { [kind |-> "object", raw |-> r] : r \in LlmObjects }

InitCriteria ==
    /\ exToken \in PriceTokens \cup {NoToken}
    /\ \E lead \in TextLeads, trail \in TextTrails : exText = lead \o exToken.txt \o trail
    /\ exOut = NoOut /\ IdleCount /\ IdleIntent
    /\ IdleSearch /\ EmptyCache /\ EmptyMemory /\ EmptyDb /\ IdleAgent

\* scout_node, lines 154-194, on exText
ExtractCriteria(llmOut) ==
    /\ ~exOut.done
    /\ exOut' = [done |-> TRUE, llm |-> llmOut,
                 raised |-> ScoutCriteria(exText, llmOut).raised,
                 criteria |-> ScoutCriteria(exText, llmOut).criteria]
    /\ UNCHANGED <<exText, exToken, mrMessage, mrAsked, mrResult, ciMessage, ciResult>>

NextCriteria ==
    (\E llmOut \in LlmOutcomes : ExtractCriteria(llmOut))
        /\ UNCHANGED <<searchVars, now, cacheVars, memoryVars, dbVars, agentVars>>

SpecCriteria == InitCriteria /\ [][NextCriteria]_vars

\* the literal value of a price token: x1000 when the bare number is below 100
TokenValue(tok) == IF tok.n < 100 THEN tok.n * 1000 ELSE tok.n

\* C1: for every text containing an explicit price token, the extracted
\* criteria have max_price equal to the token's literal value, whatever the
\* generative step proposed and whatever digits precede the token.
C1_MaxPriceIsLiteral ==
    (exOut.done /\ exToken # NoToken) =>
        (~exOut.raised /\ exOut.criteria.max_price = TokenValue(exToken))

\* C22: for every user text and every outcome of the generative step
\* (unavailable, exception, malformed or non-object output, object), scout_node
\* obtains criteria with location, an integer max_price, bedrooms and
\* requirements, from the deterministic extractor whenever the generative step
\* gave no usable object, and the extraction never raises.
C22_CriteriaAlwaysObtained ==
    exOut.done =>
        /\ ~exOut.raised
        /\ exOut.criteria.location # Absent /\ exOut.criteria.bedrooms # Absent
        /\ exOut.criteria.requirements # Absent /\ exOut.criteria.max_price \in Nat
        /\ exOut.llm.kind # "object" => exOut.criteria = extract_criteria_simple(exText).criteria

(***************************************************************************)
(* mongo_tool.py: the search cache.  A criteria dict holds, per key, a     *)
(* tagged value [t, v]: t = "str" (v a string), "int" (v a number), or     *)
(* "absent" (the key is missing).                                          *)
(***************************************************************************)
StrVal(x) == [t |-> "str", v |-> x]

IntVal(n) == [t |-> "int", v |-> n]

AbsentVal == [t |-> "absent", v |-> 0]

RECURSIVE Str(_)
\* str(n) for n >= 0
Str(n) == IF n < 10 THEN Ch(DigitChars, n + 1) ELSE Str(n \div 10) \o Ch(DigitChars, (n % 10) + 1)

\* criteria.get(key, default)
GetOr(x, default) == IF x.t = "absent" THEN default ELSE x

\* str(x)
StrOf(x) == IF x.t = "int" THEN Str(x.v) ELSE x.v

\* int(x), for an int or a string of digits
IntOf(x) == IF x.t = "int" THEN x.v ELSE ParseDigits(x.v)

\* a normalization that keeps the letter case and the blanks of the location
normalizedAsTyped(criteria) ==
    [location     |-> GetOr(criteria.location, StrVal("")).v,
     bedrooms     |-> StrOf(GetOr(criteria.bedrooms, StrVal("1"))),
     max_price    |-> IntOf(GetOr(criteria.max_price, IntVal(DefaultMaxPrice))),
     requirements |-> Strip(Lower(GetOr(criteria.requirements, StrVal("")).v))]

\* the dict `normalized` built from the criteria
normalized(criteria) ==
    [location     |-> Strip(Lower(GetOr(criteria.location, StrVal("")).v)),
     bedrooms     |-> StrOf(GetOr(criteria.bedrooms, StrVal("1"))),
     max_price    |-> IntOf(GetOr(criteria.max_price, IntVal(DefaultMaxPrice))),
     requirements |-> Strip(Lower(GetOr(criteria.requirements, StrVal("")).v))]

RECURSIVE JsonEscape(_)
\* the body of a JSON string: quotes and backslashes are escaped
JsonEscape(s) ==
    IF s = "" THEN ""
    ELSE (IF Head(s) \in {"\"", "\\"} THEN "\\" ELSE "") \o Ch(s, 1) \o JsonEscape(Tail(s))

JsonString(s) == "\"" \o JsonEscape(s) \o "\""

\* json.dumps(normalized, sort_keys=True)
criteria_str(n) ==
    "{\"bedrooms\": " \o JsonString(n.bedrooms)
        \o ", \"location\": " \o JsonString(n.location)
        \o ", \"max_price\": " \o Str(n.max_price)
        \o ", \"requirements\": " \o JsonString(n.requirements) \o "}"

\* the md5 digest of criteria_str is taken to be free of collisions: the key
\* is the text that is digested
_generate_search_hash(criteria) == criteria_str(normalized(criteria))

CacheFreshHours == 24

\* an entry exactly 24 hours old counted as expired
CacheExpiredAtLimit(cache_age) == cache_age >= CacheFreshHours

\* cache_age > timedelta(hours=24)
CacheExpired(cache_age) == cache_age > CacheFreshHours

\* the stored list returned whole
CachePrefixAll(cached_properties, max_results) == cached_properties

\* cached_properties[:max_results]
CachePrefix(cached_properties, max_results) == Take(cached_properties, max_results)

\* None
CacheMiss == [hit |-> FALSE, properties |-> <<>>]

\* get_cached_search on the collection as it is at time t
get_cached_search(cache, t, criteria, max_results) ==
    LET search_hash == _generate_search_hash(criteria)
        found       == { e \in cache : e.search_hash = search_hash }
    IN IF found = {} THEN CacheMiss
       ELSE LET cache_entry == CHOOSE e \in found : TRUE
            IN IF CacheExpired(t - cache_entry.created_at) THEN CacheMiss
               ELSE IF Len(cache_entry.properties) >= max_results
               THEN [hit |-> TRUE, properties |-> CachePrefix(cache_entry.properties, max_results)]
               ELSE CacheMiss

GetCachedSearch(criteria, max_results) ==
    /\ cacheGet' = [called |-> TRUE, criteria |-> criteria, max_results |-> max_results,
                    result |-> get_cached_search(search_cache, now, criteria, max_results)]
    /\ UNCHANGED <<now, search_cache>>

\* save_search_cache: the upsert that sets search_count to 1, then the increment
SaveSearchCache(criteria, properties) ==
    LET search_hash == _generate_search_hash(criteria)
    IN /\ search_cache' = { e \in search_cache : e.search_hash # search_hash }
                          \cup { [search_hash |-> search_hash, criteria |-> criteria,
                                  properties |-> properties, created_at |-> now,
                                  search_count |-> 1 + 1] }
       /\ cacheGet' = NoGet
       /\ UNCHANGED now

\* time passes
Tick(steps, limit) ==
    /\ \E d \in steps : now + d <= limit /\ now' = now + d
    /\ cacheGet' = NoGet
    /\ UNCHANGED search_cache

(***************************************************************************)
(* SpecCache: saves and reads of the search cache while time passes        *)
(***************************************************************************)
MaxClock == 26

\* half the freshness window, or an hour more
TickSteps == { CacheFreshHours \div 2, CacheFreshHours \div 2 + 1 }

CacheCriteria ==
    { [location |-> StrVal("Austin"), bedrooms |-> StrVal("2"), max_price |-> IntVal(2000),
       requirements |-> StrVal("none")],
      [location |-> StrVal(" austin "), bedrooms |-> IntVal(2), max_price |-> StrVal("2000"),
       requirements |-> StrVal("None")],
      [location |-> StrVal("Boston"), bedrooms |-> AbsentVal, max_price |-> AbsentVal,
       requirements |-> AbsentVal] }

CachedItem(i) == [id |-> i]

CachedLists == { <<CachedItem(1)>>, <<CachedItem(2), CachedItem(1), CachedItem(3)>> }

InitCache == EmptyCache /\ IdleCriteria /\ IdleSearch /\ EmptyMemory /\ EmptyDb /\ IdleAgent

NextCache ==
    \/ (\E c \in CacheCriteria, ps \in CachedLists : SaveSearchCache(c, ps))
           /\ UNCHANGED <<criteriaVars, searchVars, memoryVars, dbVars, agentVars>>
    \/ (\E c \in CacheCriteria, n \in 1..MaxResultsAsked : GetCachedSearch(c, n))
           /\ UNCHANGED <<criteriaVars, searchVars, memoryVars, dbVars, agentVars>>
    \/ Tick(TickSteps, MaxClock) /\ UNCHANGED <<criteriaVars, searchVars, memoryVars, dbVars, agentVars>>

SpecCache == InitCache /\ [][NextCache]_vars

\* the entries a read of cacheGet.criteria is answered from
EntriesRead == { e \in search_cache : e.search_hash = _generate_search_hash(cacheGet.criteria) }

\* C4: after save_search_cache(C, P), a get_cached_search(C', n) issued within
\* 24 hours with C' normalizing to the key of C and 1 <= n <= Len(P) returns
\* exactly the first n elements of P in stored order.
C4_HitIsPrefix ==
    cacheGet.called =>
        \A e \in EntriesRead :
            (now - e.created_at <= 24 /\ 1 <= cacheGet.max_results
                /\ cacheGet.max_results <= Len(e.properties))
            => /\ cacheGet.result.hit
               /\ Len(cacheGet.result.properties) = cacheGet.max_results
               /\ \A i \in 1..cacheGet.max_results :
                      cacheGet.result.properties[i] = e.properties[i]

C4_Witness ==
    /\ cacheGet.called /\ cacheGet.result.hit
    /\ \E e \in EntriesRead :
          /\ e.criteria # cacheGet.criteria
          /\ now - e.created_at = 24
          /\ cacheGet.max_results < Len(e.properties)
          /\ cacheGet.max_results >= 2

\* C5: get_cached_search misses if and only if there is no entry for the key,
\* or the entry is older than 24 hours, or it stores fewer candidates than
\* requested.
C5_MissIff ==
    cacheGet.called =>
        (~cacheGet.result.hit <=>
            \/ EntriesRead = {}
            \/ \E e \in EntriesRead : now - e.created_at > 24
            \/ \E e \in EntriesRead : Len(e.properties) < cacheGet.max_results)

C5_Witness ==
    /\ cacheGet.called /\ ~cacheGet.result.hit
    /\ \E e \in EntriesRead :
          /\ e.criteria = cacheGet.criteria
          /\ now - e.created_at = 25
          /\ Len(e.properties) >= cacheGet.max_results

\* C27: each save_search_cache call for a key replaces the stored candidate
\* list and creation timestamp and increments the usage counter of the
\* entry: after a write under a key that already has an entry the counter is
\* strictly larger than it was before the write.
C27_CounterGrows ==
    [][ \A c \in CacheCriteria, ps \in CachedLists :
            SaveSearchCache(c, ps) =>
                \A e2 \in { e \in search_cache' : e.search_hash = _generate_search_hash(c) } :
                    /\ e2.properties = ps
                    /\ e2.created_at = now
                    /\ \A e1 \in { e \in search_cache : e.search_hash = e2.search_hash } :
                           e2.search_count > e1.search_count
      ]_vars

(***************************************************************************)
(* SpecKey: writes and reads of the search cache under criteria that       *)
(* differ in spelling only, or in one field                                *)
(***************************************************************************)
AustinTwo == [location |-> StrVal("Austin"), bedrooms |-> StrVal("2"), max_price |-> IntVal(2000),
              requirements |-> StrVal("none")]

KeyCriteria ==
    CacheCriteria \cup
    { [location |-> StrVal("boston"), bedrooms |-> IntVal(1), max_price |-> StrVal("2500"),
       requirements |-> StrVal("")],
      [AustinTwo EXCEPT !.requirements = StrVal("pets")],
      [AustinTwo EXCEPT !.max_price = StrVal("2500")],
      [AustinTwo EXCEPT !.bedrooms = StrVal("Studio")],
      [AustinTwo EXCEPT !.bedrooms = StrVal("studio")] }

KeyList == << CachedItem(1) >>

NextKey ==
    \/ (\E c \in KeyCriteria : SaveSearchCache(c, KeyList))
           /\ UNCHANGED <<criteriaVars, searchVars, memoryVars, dbVars, agentVars>>
    \/ (\E c \in KeyCriteria : GetCachedSearch(c, Len(KeyList)))
           /\ UNCHANGED <<criteriaVars, searchVars, memoryVars, dbVars, agentVars>>

SpecKey == InitCache /\ [][NextKey]_vars

\* the two criteria records agree after normalization: location and
\* requirements lowercased and trimmed, bedrooms as a string, max_price as an
\* integer, a missing field standing for its default
AgreeAfterNormalization(a, b) ==
    /\ Strip(Lower(GetOr(a.location, StrVal("")).v)) = Strip(Lower(GetOr(b.location, StrVal("")).v))
    /\ Strip(Lower(GetOr(a.requirements, StrVal("")).v))
           = Strip(Lower(GetOr(b.requirements, StrVal("")).v))
    /\ StrOf(GetOr(a.bedrooms, StrVal("1"))) = StrOf(GetOr(b.bedrooms, StrVal("1")))
    /\ IntOf(GetOr(a.max_price, IntVal(DefaultMaxPrice)))
           = IntOf(GetOr(b.max_price, IntVal(DefaultMaxPrice)))

\* C28: two criteria records map to the same cache key exactly when they
\* agree after normalization.  A write under criteria c replaces the one
\* entry whose criteria agree with c and leaves every entry whose criteria
\* differ in a normalized field; a read under c is answered from an entry
\* exactly when the criteria of that entry agree with c.
C28_KeyIffNormalized ==
    [][ /\ \A e2 \in search_cache' \ search_cache :
              /\ { e \in search_cache' : ~AgreeAfterNormalization(e.criteria, e2.criteria) }
                    = { e \in search_cache : ~AgreeAfterNormalization(e.criteria, e2.criteria) }
              /\ \A e \in search_cache' :
                     AgreeAfterNormalization(e.criteria, e2.criteria) => e = e2
        /\ (cacheGet'.called /\ cacheGet' # cacheGet) =>
              (cacheGet'.result.hit
                  <=> \E e \in search_cache : AgreeAfterNormalization(e.criteria, cacheGet'.criteria))
      ]_vars

\* a read under "Austin" answered from the entry written under " austin "
\* with an integer bedrooms and a string max_price, beside separate entries
\* for the criteria that differ from it in one field
C28_Witness ==
    /\ cacheGet.called /\ cacheGet.criteria = AustinTwo /\ cacheGet.result.hit
    /\ \A e \in EntriesRead : e.criteria # AustinTwo /\ e.criteria.bedrooms = IntVal(2)
    /\ \A c \in KeyCriteria :
           ~AgreeAfterNormalization(c, AustinTwo) /\ c.location # StrVal("Boston")
               => \E e \in search_cache : AgreeAfterNormalization(e.criteria, c)

(***************************************************************************)
(* mongo_tool.py: conversation memory with history.  A search record is    *)
(* [last_query, criteria, currency, property_count]; an entry of           *)
(* search_history is a record with searched_at added.                      *)
(***************************************************************************)
HistoryCap == 10

\* the oldest n kept instead
FirstN(seq, n) == SubSeq(seq, 1, Min2(n, Len(seq)))

\* seq[-n:]
LastN(seq, n) == SubSeq(seq, Max2(1, Len(seq) - n + 1), Len(seq))

\* {**existing["last_search"], "searched_at": existing.get("updated_at", ...)}
HistoryEntry(last_search, searched_at) ==
    [last_query |-> last_search.last_query, criteria |-> last_search.criteria,
     currency |-> last_search.currency, property_count |-> last_search.property_count,
     searched_at |-> searched_at]

\* the search record a history entry was made from
RecordOf(entry) ==
    [last_query |-> entry.last_query, criteria |-> entry.criteria,
     currency |-> entry.currency, property_count |-> entry.property_count]

\* the document after save_conversation_memory(user_id, memory) at time t
save_conversation_memory(existing, memory, t) ==
    IF existing.exists
    THEN LET history == Append(existing.search_history,
                               HistoryEntry(existing.last_search, existing.updated_at))
         IN [exists |-> TRUE, last_search |-> memory,
             search_history |-> LastN(history, HistoryCap),
             created_at |-> existing.created_at, updated_at |-> t,
             total_searches |-> existing.total_searches + 1]
    ELSE [exists |-> TRUE, last_search |-> memory, search_history |-> <<>>,
          created_at |-> t, updated_at |-> t, total_searches |-> 1]

SaveConversationMemory(memory) ==
    /\ conversation_memory' = save_conversation_memory(conversation_memory, memory, now)
    /\ memLog' = Append(memLog, memory)
    /\ UNCHANGED <<memory_extra, savers>>

\* None
NoSearch == [found |-> FALSE]

\* a get_search_by_index that reads "last search" as the last entry of the
\* history list, search_history[-1], and never the current last_search
get_search_by_index_history_only(memory, index) ==
    IF ~memory.exists THEN NoSearch
    ELSE LET history == memory.search_history
         IN IF index = 0 /\ history # <<>> THEN [found |-> TRUE, search |-> history[1]]
            ELSE IF index = -1 /\ history # <<>>
            THEN [found |-> TRUE, search |-> history[Len(history)]]
            ELSE IF 0 < index /\ index <= Len(history)
            THEN [found |-> TRUE, search |-> history[index]]
            ELSE NoSearch

\* get_search_by_index: [found, search]
get_search_by_index(memory, index) ==
    IF ~memory.exists THEN NoSearch
    ELSE LET history == memory.search_history
         IN IF index = 0 /\ history # <<>> THEN [found |-> TRUE, search |-> history[1]]
            ELSE IF index = -1 THEN [found |-> TRUE, search |-> memory.last_search]
            ELSE IF 0 < index /\ index <= Len(history)
            THEN [found |-> TRUE, search |-> history[index]]
            ELSE NoSearch

(***************************************************************************)
(* SpecMemory: successive saves of one user's conversation memory          *)
(***************************************************************************)
MaxSaves == 12

MaxMemoryClock == 1

USD == [code |-> "USD", symbol |-> "$"]

SavedRecords ==
    { [last_query |-> "2 bedroom apartment in Austin under $2000",
       criteria |-> [location |-> "Austin", max_price |-> 2000, bedrooms |-> "2", requirements |-> "none"],
       currency |-> USD, property_count |-> 2],
      [last_query |-> "studio in Boston under $1500",
       criteria |-> [location |-> "Boston", max_price |-> 1500, bedrooms |-> "studio", requirements |-> "none"],
       currency |-> USD, property_count |-> 1] }

InitMemory == EmptyMemory /\ EmptyCache /\ IdleCriteria /\ IdleSearch /\ EmptyDb /\ IdleAgent

NextMemory ==
    \/ (\E m \in SavedRecords : Len(memLog) < MaxSaves /\ SaveConversationMemory(m))
           /\ UNCHANGED <<criteriaVars, searchVars, now, cacheVars, dbVars, agentVars>>
    \/ Tick({1}, MaxMemoryClock) /\ UNCHANGED <<criteriaVars, searchVars, memoryVars, dbVars, agentVars>>

SpecMemory == InitMemory /\ [][NextMemory]_vars

\* search_history followed by last_search, as search records
RecordsKept ==
    IF conversation_memory.exists
    THEN [ i \in 1..Len(conversation_memory.search_history) |->
             RecordOf(conversation_memory.search_history[i]) ]
         \o << conversation_memory.last_search >>
    ELSE << >>

\* C6: after k save_conversation_memory calls, search_history followed by
\* last_search is the most recent min(k, 11) saved records in save order, and
\* search_history never holds more than 10 entries (the oldest is evicted).
C6_HistoryIsRecentSaves ==
    LET k == Len(memLog)
    IN /\ RecordsKept = SubSeq(memLog, k - Min2(k, 11) + 1, k)
       /\ conversation_memory.exists => Len(conversation_memory.search_history) <= 10

C6_Witness ==
    /\ Len(memLog) >= 12
    /\ memLog[1] # memLog[2]
    /\ Len(conversation_memory.search_history) = 10

(***************************************************************************)
(* SpecRace: save_conversation_memory run by two requests at once.  The    *)
(* find_one of line 195 and the update_one / insert_one of lines 209-227   *)
(* are two operations on the collection; nothing holds the document in     *)
(* between.                                                                *)
(***************************************************************************)
MaxRaceSaves == 3

\* line 195: existing = find_one({"user_id": user_id})
SaverRead(r, memory) ==
    /\ savers[r].pc = "out"
    /\ Len(memLog) + Cardinality({ q \in Requests : savers[q].pc = "read" }) < MaxRaceSaves
    /\ savers' = [savers EXCEPT ![r] = [pc |-> "read", memory |-> memory,
                                        existing |-> conversation_memory]]
    /\ UNCHANGED <<conversation_memory, memLog, memory_extra>>

\* a write that looks at the document again instead of using what it read
SaverWriteFresh(r) ==
    /\ savers[r].pc = "read"
    /\ conversation_memory' = save_conversation_memory(conversation_memory, savers[r].memory, now)
    /\ memLog' = Append(memLog, savers[r].memory)
    /\ savers' = [savers EXCEPT ![r] = NoSaver]
    /\ UNCHANGED memory_extra

\* lines 197-227: update_one sets the four fields on the user's first document;
\* insert_one adds a document, found by later find_one calls only if it is the
\* user's first
SaverWrite(r) ==
    /\ savers[r].pc = "read"
    /\ \E written \in {save_conversation_memory(savers[r].existing, savers[r].memory, now)} :
          IF savers[r].existing.exists \/ ~conversation_memory.exists
          THEN conversation_memory' = written /\ UNCHANGED memory_extra
          ELSE memory_extra' = Append(memory_extra, written) /\ UNCHANGED conversation_memory
    /\ memLog' = Append(memLog, savers[r].memory)
    /\ savers' = [savers EXCEPT ![r] = NoSaver]

NextRace ==
    \/ (\E r \in Requests, m \in SavedRecords : SaverRead(r, m))
           /\ UNCHANGED <<criteriaVars, searchVars, now, cacheVars, dbVars, agentVars>>
    \/ (\E r \in Requests : SaverWrite(r))
           /\ UNCHANGED <<criteriaVars, searchVars, now, cacheVars, dbVars, agentVars>>

SpecRace == InitMemory /\ [][NextRace]_vars

\* C25: concurrent saves are not serialized: a request that leaves
\* save_conversation_memory writes the document it made from what it had read,
\* whatever was written in between, so the last writer wins and the search of
\* the other request can be missing from last_search and search_history, with
\* total_searches below the number of completed searches.
C25_LastWriterWins ==
    [][ \A r \in Requests :
            (savers[r].pc = "read" /\ savers'[r].pc = "out") =>
                LET written == save_conversation_memory(savers[r].existing, savers[r].memory, now)
                IN IF savers[r].existing.exists
                   THEN conversation_memory' = written
                   ELSE written \in { conversation_memory' }
                                    \cup { memory_extra'[i] : i \in 1..Len(memory_extra') }
      ]_vars

\* three searches completed, the document counts two and one completed search
\* is neither last_search nor in search_history
C25_Witness ==
    /\ Len(memLog) = 3 /\ \A r \in Requests : savers[r].pc = "out"
    /\ conversation_memory.exists /\ conversation_memory.total_searches = 2
    /\ \E i \in 1..Len(memLog) : \A k \in 1..Len(RecordsKept) : RecordsKept[k] # memLog[i]

(***************************************************************************)
(* Pattern helpers for the message analysers (1-based positions)           *)
(***************************************************************************)
\* last index of the run of characters of cs that starts at i (i - 1 when none)
RunEnd(s, i, cs) ==
    CHOOSE j \in (i - 1)..Len(s) :
        /\ \A k \in i..j : Ch(s, k) \in cs
        /\ (j = Len(s) \/ Ch(s, j + 1) \notin cs)

\* \s+ at i: the index after the whitespace, 0 when there is none at i
AfterWs(s, i) == IF i <= Len(s) /\ Ch(s, i) \in Whitespace THEN SkipWs(s, i) ELSE 0

\* (\d+) at i: [ok, num, next]
DigitsAt(s, i) ==
    LET e == RunEnd(s, i, Digits)
    IN IF i >= 1 /\ i <= Len(s) /\ e >= i
       THEN [ok |-> TRUE, num |-> ParseDigits(SubSeq(s, i, e)), next |-> e + 1]
       ELSE [ok |-> FALSE, num |-> 0, next |-> 0]

NoMatch == [ok |-> FALSE, num |-> 0, next |-> 0]

\* the match of a pattern for the leftmost start position, At(p) being its
\* match at position p
Leftmost(s, At(_)) ==
    LET ps == { p \in 1..Len(s) : At(p).ok }
    IN IF ps = {} THEN NoMatch ELSE At(Min(ps))

\* the words of ws that start at i
WordsAt(s, i, ws) == { w \in ws : StartsAt(s, i, w) }

\* the end (exclusive) of the earliest-ending occurrence of a word of ws that
\* starts at or after from; 0 when there is none
EndOfFirst(s, ws, from) ==
    LET ends == { p + Len(w) : p \in from..Len(s), w \in ws }
        hits == { e \in ends : \E w \in ws : e - Len(w) >= from /\ StartsAt(s, e - Len(w), w) }
    IN IF from = 0 \/ hits = {} THEN 0 ELSE Min(hits)

\* re.search of  (a).*?(b)  ...  for the word sets of seq, in order
RECURSIVE InOrder(_, _, _)
InOrder(s, seq, from) ==
    IF seq = <<>> THEN from # 0
    ELSE IF from = 0 THEN FALSE
    ELSE InOrder(s, Tail(seq), EndOfFirst(s, Head(seq), from))

\* len(s.split())
RECURSIVE WordCount(_)
WordCount(s) ==
    LET t == LStrip(s)
    IN IF t = "" THEN 0
       ELSE 1 + WordCount(SubSeq(t, RunEnd(t, 1, CharsOf(t) \ Whitespace) + 1, Len(t)))

(***************************************************************************)
(* nodes.py: extract_max_results                                           *)
(***************************************************************************)
CountVerbs == { "show", "give", "find", "get", "list", "return" }

CountNouns == { "propert", "apartment", "listing", "result", "option" }

CountAdverbs == { "only", "just", "top", "around", "about" }

\* (\d+)\s*(?:propert|apartment|listing|result|option) at i
CountNounAt(s, i) ==
    LET d == DigitsAt(s, i)
    IN IF d.ok /\ WordsAt(s, SkipWs(s, d.next), CountNouns) # {} THEN d ELSE NoMatch

\* (?:show|...)\s+(?:me\s+)?(\d+)\s*(?:propert|...) at i
CountVerbAt(s, i) ==
    LET ends  == { AfterWs(s, i + Len(w)) : w \in WordsAt(s, i, CountVerbs) } \ {0}
        after == ends \cup ({ AfterWs(s, e + 2) : e \in { x \in ends : StartsAt(s, x, "me") } } \ {0})
        hits  == { e \in after : CountNounAt(s, e).ok }
    IN IF hits = {} THEN NoMatch ELSE CountNounAt(s, Min(hits))

\* (?:only|just|top|around|about)\s+(\d+) at i
CountAdverbAt(s, i) ==
    LET ends == { AfterWs(s, i + Len(w)) : w \in WordsAt(s, i, CountAdverbs) } \ {0}
        hits == { e \in ends : DigitsAt(s, e).ok }
    IN IF hits = {} THEN NoMatch ELSE DigitsAt(s, Min(hits))

DefaultMaxResults == 5

MaxResultsCap == 10

\* max(1, min(n, 10))
ClampCount(n) == Max2(1, Min2(n, MaxResultsCap))

extract_max_results(message) ==
    LET s  == Lower(message)
        m1 == Leftmost(s, LAMBDA p : CountVerbAt(s, p))
        m2 == Leftmost(s, LAMBDA p : CountNounAt(s, p))
        m3 == Leftmost(s, LAMBDA p : CountAdverbAt(s, p))
    IN IF m1.ok THEN ClampCount(m1.num)
       ELSE IF m2.ok THEN ClampCount(m2.num)
       ELSE IF m3.ok THEN ClampCount(m3.num)
       ELSE DefaultMaxResults

(***************************************************************************)
(* SpecCount: extract_max_results on one message, written as a lead, a     *)
(* number and what the number counts                                       *)
(***************************************************************************)
CountLeads == { "", "show me ", "give me ", "find ", "i need ", "only ", "around " }

CountNumbers == { 0, 1, 3, 10, 15, 2000 }

\* what follows the number: listings, bedrooms or money
CountTails ==
    { [txt |-> " properties", unit |-> "listing"], [txt |-> " listings near me", unit |-> "listing"],
      [txt |-> " apartments in Austin", unit |-> "listing"],
      [txt |-> " bedroom apartment in Austin", unit |-> "bedroom"],
      [txt |-> " dollars a month in Austin", unit |-> "price"] }

InitCount ==
    /\ \E lead \in CountLeads, n \in CountNumbers, tail \in CountTails :
          /\ mrMessage = lead \o Str(n) \o tail.txt
          /\ mrAsked = [n |-> n, unit |-> tail.unit]
    /\ mrResult = NoResult
    /\ IdleExtract /\ IdleIntent
    /\ IdleSearch /\ EmptyCache /\ EmptyMemory /\ EmptyDb /\ IdleAgent

ExtractMaxResults ==
    /\ ~mrResult.done
    /\ mrResult' = [done |-> TRUE, n |-> extract_max_results(mrMessage)]
    /\ UNCHANGED <<exText, exToken, exOut, mrMessage, mrAsked, ciMessage, ciResult>>

NextCount ==
    ExtractMaxResults /\ UNCHANGED <<searchVars, now, cacheVars, memoryVars, dbVars, agentVars>>

SpecCount == InitCount /\ [][NextCount]_vars

\* C15: extract_max_results returns an integer in [1, 10]: the requested number
\* of listings clamped into [1, 10] when the message states one, and 5 when the
\* message states no number of listings.
C15_CountInRange ==
    mrResult.done =>
        /\ mrResult.n \in 1..10
        /\ mrAsked.unit = "listing" =>
              mrResult.n = (IF mrAsked.n < 1 THEN 1 ELSE IF mrAsked.n > 10 THEN 10 ELSE mrAsked.n)
        /\ mrAsked.unit # "listing" => mrResult.n = 5

(***************************************************************************)
(* workflow.py: extract_search_index_from_query: [has_index, index]        *)
(***************************************************************************)
LastWords == { "last", "latest", "recent", "previous" }

OrdinalSuffixes == { "st", "nd", "rd", "th" }

\* (\d+)(?:st|nd|rd|th)\s+search at i
OrdinalAt(s, i) ==
    LET d == DigitsAt(s, i)
    IN IF d.ok /\ WordsAt(s, d.next, OrdinalSuffixes) # {}
          /\ AfterWs(s, d.next + 2) # 0 /\ StartsAt(s, AfterWs(s, d.next + 2), "search")
       THEN d ELSE NoMatch

\* search\s+(?:number\s+)?(\d+) at i
SearchNumberAt(s, i) ==
    LET a == IF StartsAt(s, i, "search") THEN AfterWs(s, i + 6) ELSE 0
        b == IF a # 0 /\ StartsAt(s, a, "number") THEN AfterWs(s, a + 6) ELSE 0
    IN IF b # 0 /\ DigitsAt(s, b).ok THEN DigitsAt(s, b)
       ELSE IF a # 0 /\ DigitsAt(s, a).ok THEN DigitsAt(s, a)
       ELSE NoMatch

NoIndex == [has_index |-> FALSE, index |-> 0]

extract_search_index_from_query(query) ==
    LET s  == Lower(query)
        m1 == Leftmost(s, LAMBDA p : OrdinalAt(s, p))
        m2 == Leftmost(s, LAMBDA p : SearchNumberAt(s, p))
    IN IF ContainsAny(s, LastWords) THEN [has_index |-> TRUE, index |-> -1]
       ELSE IF Contains(s, "first") THEN [has_index |-> TRUE, index |-> 0]
       ELSE IF m1.ok THEN [has_index |-> TRUE, index |-> m1.num - 1]
       ELSE IF m2.ok THEN [has_index |-> TRUE, index |-> m2.num - 1]
       ELSE NoIndex

(***************************************************************************)
(* intent_classifier.py: classify_intent.  llmIntent is what the           *)
(* generative classifier answers when it is asked: "unavailable" (no       *)
(* llm), "error" (the call raises or the text is not JSON), or the intent  *)
(* of the JSON object it returns.                                          *)
(***************************************************************************)
GreetingPrefixes ==
    { "hi", "hello", "hey", "greetings", "good morning", "good afternoon", "good evening",
      "what's up", "whats up", "how are you", "how's it going", "yo", "sup", "howdy" }

\* { a b : a in as, b in bs }, the words joined by one blank
Phrases(as, bs) == { a \o " " \o b : a \in as, b \in bs }

MemoryPhrases ==
    Phrases({"my last", "my previous", "my recent"}, {"search", "query", "preference", "criteria"})
    \cup { "what was my last", "what was the last", "show me my preference", "show me my history",
           "show me my last search", "what am i looking for", "what was i looking for",
           "recall my", "my search history" }

IsMemoryRequest(s) ==
    \/ InOrder(s, << {"what", "show", "tell", "give"}, {"my", "last", "previous", "recent"},
                     {"preference", "search", "query", "criteria"} >>, 1)
    \/ InOrder(s, << {"what did i", "remind me what i"}, {"search", "look", "ask"} >>, 1)
    \/ ContainsAny(s, MemoryPhrases)

SearchKeywords ==
    { "apartment", "property", "house", "room", "bedroom", "studio", "rent", "rental", "lease",
      "find", "search", "looking for", "need", "want", "show me", "under", "budget", "price" }

IntentLocationKeywords ==
    { "in", "at", "near", "around", "city", "area", "neighborhood", "brooklyn", "austin",
      "new york", "san francisco", "london" }

\* sum(1 for kw in keywords if kw in message_lower)
Score(s, keywords) == Cardinality({ kw \in keywords : Contains(s, kw) })

FollowUpPhrases ==
    Phrases({"show", "tell", "give", "find"}, {"me more", "me another", "me different"})
    \cup Phrases({"like the", "like that"}, {"last", "previous"})
    \cup Phrases({"same", "similar"}, {"but", "with"})
    \cup { "what about", "how about", "similar to", "more like", "show more", "show again" }

IsFollowUp(s) == ContainsAny(s, FollowUpPhrases) \/ s \in {"again", "more"}

classify_intent(message, llmIntent) ==
    LET s              == Strip(Lower(message))
        search_score   == Score(s, SearchKeywords)
        location_score == Score(s, IntentLocationKeywords)
    IN IF \E g \in GreetingPrefixes : StartsAt(s, 1, g) THEN "greeting"
       ELSE IF IsMemoryRequest(s) THEN "memory_retrieval"
       ELSE IF search_score >= 2 \/ (search_score >= 1 /\ location_score >= 1) THEN "search"
       ELSE IF IsFollowUp(s) THEN "follow_up"
       ELSE IF llmIntent \notin {"unavailable", "error"} /\ WordCount(message) > 3 THEN llmIntent
       ELSE IF WordCount(message) <= 2 /\ search_score = 0 THEN "invalid"
       ELSE IF search_score >= 1 \/ location_score >= 1 THEN "search"
       ELSE "invalid"

(***************************************************************************)
(* intent_classifier.py: the dict classify_intent returns.  A decoded JSON *)
(* value is [type, keys, intent, confidence]: type "dict" or another JSON  *)
(* type, keys the keys of the dict, confidence a tagged value with a       *)
(* number in hundredths or a string.                                       *)
(***************************************************************************)
Intents == { "greeting", "search", "follow_up", "memory_retrieval", "invalid" }

ResultKeys == { "intent", "confidence", "reason" }

\* the dict literals of lines 35-39, 54-58, 80-84, 100-104, 139-143, 147-151, 155-159
IntentResult(intent, hundredths) ==
    [type |-> "dict", keys |-> ResultKeys, intent |-> intent,
     confidence |-> [t |-> "num", v |-> hundredths]]

\* lines 23-159; llmOut is "unavailable" (llm is None), "error" (the call
\* raises or its text is not JSON) or "json" with the decoded value
classify_intent_result(message, llmOut) ==
    LET s              == Strip(Lower(message))
        search_score   == Score(s, SearchKeywords)
        location_score == Score(s, IntentLocationKeywords)
    IN IF \E g \in GreetingPrefixes : StartsAt(s, 1, g) THEN IntentResult("greeting", 95)
       ELSE IF IsMemoryRequest(s) THEN IntentResult("memory_retrieval", 95)
       ELSE IF search_score >= 2 \/ (search_score >= 1 /\ location_score >= 1)
       THEN IntentResult("search", 90)
       ELSE IF IsFollowUp(s) THEN IntentResult("follow_up", 85)
       ELSE IF llmOut.kind = "json" /\ WordCount(message) > 3 THEN llmOut.value
       ELSE IF WordCount(message) <= 2 /\ search_score = 0 THEN IntentResult("invalid", 70)
       ELSE IF search_score >= 1 \/ location_score >= 1 THEN IntentResult("search", 60)
       ELSE IntentResult("invalid", 50)

(***************************************************************************)
(* SpecIntent: classify_intent on one message, for every answer of the     *)
(* generative classifier                                                   *)
(***************************************************************************)
IntentMessages ==
    { "hello there", "what did i search for", "2 bedroom apartment in Austin under $2000",
      "show me more", "ok thanks", "boston maybe", "can you help me please",
      "tell me a good joke now", "is it raining today" }

\* what the classifier's JSON may decode to
ClassifierValues ==
    [type : {"dict"},
     keys : { ResultKeys, {"intent", "reason"}, {"intent", "confidence"}, {"confidence", "reason"} },
     intent : Intents \cup {"question"},
     confidence : { [t |-> "num", v |-> 0], [t |-> "num", v |-> 80], [t |-> "num", v |-> 100],
                    [t |-> "num", v |-> 150], [t |-> "str", v |-> 0] }]
    \cup { [type |-> "list", keys |-> {}, intent |-> "", confidence |-> [t |-> "str", v |-> 0]] }

ClassifierOutcomes ==
    { [kind |-> k, value |-> IntentResult("", 0)] : k \in {"unavailable", "error"} }
    \cup { [kind |-> "json", value |-> v] : v \in ClassifierValues }

InitIntent ==
    /\ ciMessage \in IntentMessages /\ ciResult = NoIntent
    /\ IdleExtract /\ IdleCount
    /\ IdleSearch /\ EmptyCache /\ EmptyMemory /\ EmptyDb /\ IdleAgent

ClassifyIntent(llmOut) ==
    /\ ~ciResult.done
    /\ ciResult' = [done |-> TRUE, llm |-> llmOut.kind, result |-> classify_intent_result(ciMessage, llmOut)]
    /\ UNCHANGED <<exText, exToken, exOut, mrMessage, mrAsked, mrResult, ciMessage>>

NextIntent ==
    (\E llmOut \in ClassifierOutcomes : ClassifyIntent(llmOut))
        /\ UNCHANGED <<searchVars, now, cacheVars, memoryVars, dbVars, agentVars>>

SpecIntent == InitIntent /\ [][NextIntent]_vars

\* C23: for every message and every output of the generative classifier,
\* classify_intent returns exactly one intent of greeting, search, follow_up,
\* memory_retrieval, invalid, with a confidence in [0, 1] and a reason.
C23_IntentWellFormed ==
    ciResult.done =>
        /\ ciResult.result.type = "dict"
        /\ ResultKeys \subseteq ciResult.result.keys
        /\ ciResult.result.intent \in Intents
        /\ ciResult.result.confidence.t = "num"
        /\ ciResult.result.confidence.v \in 0..100

(***************************************************************************)
(* mongo_tool.py: user preferences and currency.  A profile document is    *)
(* [exists, keys, <one field per preference key>, preferences]; keys is    *)
(* the set of its top-level keys.                                          *)
(***************************************************************************)
\* the keys a preferences dict holds
PrefKeys(prefs) ==
    (IF prefs.has_pet THEN {"has_pet"} ELSE {})
    \cup (IF prefs.preferred_locations # <<>> THEN {"preferred_locations"} ELSE {})
    \cup (IF prefs.budget_history # <<>> THEN {"budget_history", "typical_budget"} ELSE {})
    \cup (IF prefs.preferred_bedrooms # <<>> THEN {"preferred_bedrooms"} ELSE {})

\* what get_user_preferences returns when there is no document
DefaultProfile ==
    [exists |-> FALSE, keys |-> {"user_id", "preferences"}, preferences |-> EmptyPrefs,
     has_pet |-> FALSE, preferred_locations |-> <<>>, budget_history |-> <<>>,
     typical_budget |-> 0, preferred_bedrooms |-> <<>>, updated_at |-> 0]

get_user_preferences(profile) == IF profile.exists THEN profile ELSE DefaultProfile

\* user_prefs.get("preferences", {})
StoredPreferences(user_prefs) ==
    IF "preferences" \in user_prefs.keys THEN user_prefs.preferences ELSE EmptyPrefs

\* the preferences a profile document holds at its top level
TopLevelPreferences(profile) ==
    [has_pet |-> profile.has_pet, preferred_locations |-> profile.preferred_locations,
     budget_history |-> profile.budget_history, typical_budget |-> profile.typical_budget,
     preferred_bedrooms |-> profile.preferred_bedrooms]

\* the document replaced by the preferences written, instead of $set on it
update_user_preference_replace(profile, preferences, t) ==
    [exists  |-> TRUE,
     keys    |-> {"user_id", "updated_at"} \cup PrefKeys(preferences),
     preferences        |-> EmptyPrefs,
     has_pet            |-> preferences.has_pet,
     preferred_locations |-> preferences.preferred_locations,
     budget_history     |-> preferences.budget_history,
     typical_budget     |-> preferences.typical_budget,
     preferred_bedrooms |-> preferences.preferred_bedrooms,
     updated_at         |-> t]

\* update_user_preference: {"$set": {**preferences, "updated_at": ...}}, upsert
update_user_preference(profile, preferences, t) ==
    LET old  == IF profile.exists THEN profile
                ELSE [DefaultProfile EXCEPT !.keys = {"user_id"}]
        set  == PrefKeys(preferences)
        Pick(key, new, kept) == IF key \in set THEN new ELSE kept
    IN [exists  |-> TRUE,
        keys    |-> old.keys \cup set \cup {"updated_at"},
        preferences        |-> old.preferences,
        has_pet            |-> Pick("has_pet", preferences.has_pet, old.has_pet),
        preferred_locations |-> Pick("preferred_locations", preferences.preferred_locations,
                                     old.preferred_locations),
        budget_history     |-> Pick("budget_history", preferences.budget_history, old.budget_history),
        typical_budget     |-> Pick("typical_budget", preferences.typical_budget, old.typical_budget),
        preferred_bedrooms |-> Pick("preferred_bedrooms", preferences.preferred_bedrooms,
                                    old.preferred_bedrooms),
        updated_at         |-> t]

get_user_currency(doc) == IF doc.exists THEN [code |-> doc.code, symbol |-> doc.symbol] ELSE USD

save_user_currency(currency, t) ==
    [exists |-> TRUE, code |-> currency.code, symbol |-> currency.symbol, updated_at |-> t]

\* get_conversation_memory
get_conversation_memory(memory) == IF memory.exists THEN memory.last_search ELSE EmptyDict

(***************************************************************************)
(* nodes.py: crm_node, the learning step (lines 641-682)                   *)
(***************************************************************************)
PetMentions == { "dog", "cat", "pet" }

\* x in list
InSeq(x, seq) == \E i \in 1..Len(seq) : seq[i] = x

\* list.append(x) unless x is in the list
AppendNew(seq, x) == IF InSeq(x, seq) THEN seq ELSE Append(seq, x)

RECURSIVE Sum(_)
Sum(seq) == IF seq = <<>> THEN 0 ELSE Head(seq) + Sum(Tail(seq))

BudgetHistoryCap == 5

\* the learning step with the history trimmed before the new budget is
\* appended
LearnPreferencesTrimFirst(prefs, mentions_pet, criteria) ==
    LET learn_bud == criteria.max_price # 0
        budgets   == Append(LastN(prefs.budget_history, BudgetHistoryCap), criteria.max_price)
    IN [prefs |->
          [has_pet |-> prefs.has_pet \/ mentions_pet,
           preferred_locations |-> AppendNew(prefs.preferred_locations, criteria.location),
           budget_history |-> IF learn_bud THEN budgets ELSE prefs.budget_history,
           typical_budget |-> IF learn_bud THEN Sum(budgets) \div Len(budgets) ELSE prefs.typical_budget,
           preferred_bedrooms |-> AppendNew(prefs.preferred_bedrooms, criteria.bedrooms)],
        updated |-> TRUE]

\* [prefs, updated]: the preferences after the learning step and
\* preference_updated
LearnPreferences(prefs, mentions_pet, criteria) ==
    LET learn_loc == criteria.location # "" /\ criteria.location # NotSpecified
        learn_bud == criteria.max_price # 0
        learn_bed == criteria.bedrooms # ""
        budgets   == LastN(Append(prefs.budget_history, criteria.max_price), BudgetHistoryCap)
    IN [prefs |->
          [has_pet |-> prefs.has_pet \/ mentions_pet,
           preferred_locations |-> IF learn_loc THEN AppendNew(prefs.preferred_locations, criteria.location)
                                   ELSE prefs.preferred_locations,
           budget_history |-> IF learn_bud THEN budgets ELSE prefs.budget_history,
           typical_budget |-> IF learn_bud THEN Sum(budgets) \div Len(budgets) ELSE prefs.typical_budget,
           preferred_bedrooms |-> IF learn_bed THEN AppendNew(prefs.preferred_bedrooms, criteria.bedrooms)
                                  ELSE prefs.preferred_bedrooms],
        updated |-> \/ mentions_pet
                    \/ learn_loc /\ ~InSeq(criteria.location, prefs.preferred_locations)
                    \/ learn_bud
                    \/ learn_bed /\ ~InSeq(criteria.bedrooms, prefs.preferred_bedrooms)]

(***************************************************************************)
(* The messages the agent is sent, and what the analysers make of them     *)
(* (computed once per message)                                             *)
(***************************************************************************)
SearchAustin == "2 bedroom apartment in Austin under $2000"

SearchBoston == "studio in Boston under $1500"

SearchAustinPets == "2 bedroom apartment in Austin under $2000 pet friendly"

HistoryQueries == { "my first search", "my last search", "my 2nd search", "search number 3" }

OtherMessages == { "hello", "what did i search for", "ok thanks" }

\* a search worded with one of the words the history lookup keys on
SearchLatestAustin == "latest apartments in Austin under $2000"

AgentMessages ==
    { SearchAustin, SearchBoston, SearchAustinPets, SearchLatestAustin }
    \cup HistoryQueries \cup OtherMessages

\* the generative steps of a request: the intent classifier's answer and
\* the criteria extractor's outcome
IntentAnswers == { "unavailable", "search" }

CriteriaAnswers ==
    { [kind |-> "unavailable", raw |-> NoRaw],
      [kind |-> "object", raw |-> [location |-> "Austin", max_price |-> [t |-> "int", v |-> 1800],
                                   bedrooms |-> "2", requirements |-> Absent]] }

MessageFacts ==
    [ m \in AgentMessages |->
        [index    |-> extract_search_index_from_query(m),
         wanted   |-> extract_max_results(m),
         pet      |-> ContainsAny(Lower(m), PetMentions),
         intent   |-> [ a \in IntentAnswers |-> classify_intent(m, a) ],
         criteria |-> [ a \in CriteriaAnswers |-> ScoutCriteria(m, a) ]] ]

(***************************************************************************)
(* workflow.py: run_agent, lines 92-231: classification, the loads, the    *)
(* history lookup, the early returns, the currency step, initial_state     *)
(***************************************************************************)
\* index_desc
IndexDesc(index) ==
    IF index = -1 THEN [kind |-> "last", n |-> 0]
    ELSE IF index = 0 THEN [kind |-> "first", n |-> 0]
    ELSE [kind |-> "number", n |-> index + 1]

EarlyReply(state, message) ==
    [kind |-> "returned", state |-> state, message |-> message, properties |-> <<>>,
     from_cache |-> FALSE]

HistoryReply(message, index, historical_search) ==
    [kind |-> "returned", state |-> IF historical_search.found THEN "history_retrieval"
                                    ELSE "history_not_found",
     message |-> message, properties |-> <<>>, from_cache |-> FALSE,
     index_desc |-> IndexDesc(index), historical_search |-> historical_search]

\* lines 188-199: the currency of the request and the stored preference after it
ResolveCurrency(detected, doc, t) ==
    LET saved == get_user_currency(doc)
    IN IF detected.code # "USD" \/ detected.code # saved.code
       THEN [currency |-> detected, doc |-> save_user_currency(detected, t)]
       ELSE [currency |-> saved, doc |-> doc]

\* only greetings answered without a search
AnsweredIfGreeting(intent) == intent = "greeting"

\* intent_result['intent'] in ['greeting', 'invalid']
AnsweredWithoutSearch(intent) == intent \in {"greeting", "invalid"}

RunAgentStart(message, intentAnswer, detected) ==
    /\ pc = "idle"
    /\ \E facts \in {MessageFacts[message]} :
       LET intent == facts.intent[intentAnswer]
           user_prefs == get_user_preferences(user_profiles)
           memory == get_conversation_memory(conversation_memory)
           idx == facts.index
           cur == ResolveCurrency(detected, user_currencies, now)
       IN IF idx.has_index
          THEN /\ reply' = HistoryReply(message, idx.index,
                                        get_search_by_index(conversation_memory, idx.index))
               /\ invoked' = << "classify", "history" >>
               /\ UNCHANGED <<pc, st, nRequests, user_currencies>>
          ELSE IF intent = "memory_retrieval"
          THEN /\ reply' = EarlyReply("memory_retrieval", message)
               /\ invoked' = << "classify" >>
               /\ UNCHANGED <<pc, st, nRequests, user_currencies>>
          ELSE IF AnsweredWithoutSearch(intent)
          THEN /\ reply' = EarlyReply("conversation", message)
               /\ invoked' = << "classify" >>
               /\ UNCHANGED <<pc, st, nRequests, user_currencies>>
          ELSE /\ user_currencies' = cur.doc
               /\ st' = [NoState EXCEPT !.message = message, !.intent = intent,
                                        !.user_preferences = StoredPreferences(user_prefs),
                                        !.current_step = "start",
                                        !.currency = cur.currency,
                                        !.conversation_memory = memory]
               /\ pc' = "scout"
               /\ reply' = NoReply
               /\ invoked' = << "classify", "currency" >>
               /\ nRequests' = nRequests + 1
    /\ UNCHANGED <<user_profiles, listings, completed, undeclared_keys, browser>>

\* the failure of the search treated as best effort: the pipeline goes on with
\* no candidates
RaiseSwallowed(message, error) ==
    /\ pc' = "inspector"
    /\ UNCHANGED reply

\* the call raises to the caller of run_agent (lines 306-310)
Raise(message, error) ==
    /\ pc' = "idle"
    /\ reply' = [kind |-> "raised", message |-> message, error |-> error]

(***************************************************************************)
(* nodes.py: scout_node                                                    *)
(***************************************************************************)
\* lines 196-197
SearchQuery(criteria) ==
    criteria.bedrooms \o " bedroom apartment in " \o criteria.location \o " under "
    \o Str(criteria.max_price)

\* lines 136-204: the criteria, the query, the call of search_properties
ScoutExtract(criteriaAnswer, credential) ==
    /\ pc = "scout"
    /\ \E facts \in {MessageFacts[st.message]} :
       LET c == facts.criteria[criteriaAnswer]
       IN IF c.raised
          THEN /\ Raise(st.message, "criteria")
               /\ invoked' = Append(invoked, "scout")
               /\ UNCHANGED <<st, searchVars>>
          ELSE /\ st' = IF undeclared_keys = "kept"
                       THEN [st EXCEPT !.search_criteria = c.criteria]
                       ELSE st
               /\ spCall' = [query |-> SearchQuery(c.criteria), max_price |-> c.criteria.max_price,
                             max_results |-> facts.wanted,
                             credential |-> credential]
               /\ spStatus' = "called" /\ spResults' = <<>>
               /\ spIdx' = 0 /\ spProps' = <<>> /\ spLog' = <<>>
               /\ pc' = "search"
               /\ invoked' = Append(invoked, "scout") \o << "search" >>
               /\ UNCHANGED reply
    /\ UNCHANGED <<nRequests, completed, undeclared_keys, browser>>

\* a candidate as the later nodes hold it
AsProperty(candidate) ==
    [id |-> candidate.id, price |-> candidate.price, pet_friendly |-> candidate.pet_friendly,
     url |-> candidate.url, cloudinary_url |-> ""]

RECURSIVE PetFriendlyOnly(_)
\* [p for p in properties if p.get("pet_friendly", False)]
PetFriendlyOnly(seq) ==
    IF seq = <<>> THEN <<>>
    ELSE (IF Head(seq).pet_friendly THEN << Head(seq) >> ELSE <<>>) \o PetFriendlyOnly(Tail(seq))

\* search_tool.py lines 24-29 and 76-78: what search_properties raises
SearchError(call) ==
    IF call.credential # "ok" THEN "Tavily API key not configured" ELSE "Failed to search properties"

\* lines 204-271: search_properties has returned or raised
ScoutFinish ==
    /\ pc = "search" /\ spStatus \in {"returned", "raised"}
    /\ IF spStatus = "raised"
       THEN Raise(st.message, SearchError(spCall)) /\ UNCHANGED st
       ELSE LET properties == [ i \in 1..Len(spProps) |-> AsProperty(spProps[i]) ]
                kept == IF st.user_preferences.has_pet
                        THEN PetFriendlyOnly(properties)
                        ELSE properties
            IN /\ st' = [st EXCEPT !.properties = kept, !.current_step = "scout_complete"]
               /\ pc' = "inspector"
               /\ UNCHANGED reply
    /\ spCall' = NoCall /\ spStatus' = "idle" /\ spResults' = <<>>
    /\ spIdx' = 0 /\ spProps' = <<>> /\ spLog' = <<>>
    /\ UNCHANGED <<invoked, nRequests, completed, undeclared_keys, browser>>

(***************************************************************************)
(* nodes.py: inspector_node.  The outcome of a candidate's iteration:      *)
(*   uploaded      screenshot taken and uploaded                           *)
(*   local         screenshot taken, upload failed                         *)
(*   noshot        browser.screenshot returned False                       *)
(*   type_failed   type_text returned False  (continue)                    *)
(*   click_failed  click returned False      (continue)                    *)
(*   raised        a step raised                                           *)
(***************************************************************************)
\* None in the list screenshots
NoShot == [kind |-> "none", idx |-> 0, of |-> 0]

\* the entries the iteration of candidate number i (1-based) appends
ShotsOf(outcome, i, prop) ==
    IF outcome = "uploaded" THEN << [kind |-> "url", idx |-> i, of |-> prop.id] >>
    ELSE IF outcome = "local" THEN << [kind |-> "path", idx |-> i, of |-> prop.id] >>
    ELSE IF outcome \in {"noshot", "raised"} THEN << NoShot >>
    ELSE << >>

\* cloudinary_result["url"] for public_id property_{idx + 1}_{id}
CloudinaryUrl(i, prop) == "cloudinary/property_" \o Str(i) \o "_" \o Str(prop.id)

RECURSIVE InspectFrom(_, _, _)
\* the loop of lines 294-352 from candidate i on: [properties, screenshots]
InspectFrom(properties, outcomes, i) ==
    IF i > Len(properties) THEN [properties |-> <<>>, screenshots |-> <<>>]
    ELSE LET rest == InspectFrom(properties, outcomes, i + 1)
             prop == IF outcomes[i] = "uploaded"
                     THEN [properties[i] EXCEPT !.cloudinary_url = CloudinaryUrl(i, properties[i])]
                     ELSE properties[i]
         IN [properties  |-> << prop >> \o rest.properties,
             screenshots |-> ShotsOf(outcomes[i], i, properties[i]) \o rest.screenshots]

\* browser_tool.py lines 11-15: what BrowserTool.start has opened when it
\* returns ("ok") or raises at one of its four awaits
StartOutcomes == { "ok", "playwright_failed", "launch_failed", "page_failed", "viewport_failed" }

OpenedBy(start) ==
    IF start = "playwright_failed" THEN {}
    ELSE IF start = "launch_failed" THEN { "playwright" }
    ELSE IF start = "page_failed" THEN { "playwright", "browser" }
    ELSE { "playwright", "browser", "page" }

\* browser_tool.py lines 55-64: what BrowserTool.close has closed when it returns
\* ("ok") or raises in self.browser.close() ("browser_failed")
CloseOutcomes == { "ok", "browser_failed" }

ClosedBy(close, opened) == IF close = "ok" THEN opened ELSE opened \cap { "page" }

\* a graph whose edge out of the inspector leads to the crm: listings are
\* persisted before any dossier is made
InspectorThenCrm(start, outcomes, close) ==
    /\ pc = "inspector"
    /\ st' = [st EXCEPT !.current_step = "inspector_complete"]
    /\ browser' = NoBrowser
    /\ pc' = "crm"
    /\ invoked' = Append(invoked, "inspector")
    /\ UNCHANGED <<reply, nRequests, completed, undeclared_keys>>

\* lines 272-364: start is the outcome of browser.start, outcomes[i] the outcome
\* of candidate i's iteration, close the outcome of browser.close
InspectorNode(start, outcomes, close) ==
    /\ pc = "inspector"
    /\ LET done == IF st.properties = <<>> \/ start # "ok"
                   THEN [properties |-> st.properties, screenshots |-> <<>>]
                   ELSE InspectFrom(st.properties, outcomes, 1)
       IN st' = [st EXCEPT !.properties = done.properties, !.screenshots = done.screenshots,
                           !.current_step = "inspector_complete"]
    /\ browser' = IF st.properties = <<>> THEN NoBrowser
                  ELSE IF start # "ok"
                  THEN [starts |-> 1, opened |-> OpenedBy(start), closes |-> 0, closed |-> {},
                        teardown |-> "none"]
                  ELSE [starts |-> 1, opened |-> OpenedBy(start), closes |-> 1,
                        closed |-> ClosedBy(close, OpenedBy(start)), teardown |-> close]
    /\ pc' = "broker"
    /\ invoked' = Append(invoked, "inspector")
    /\ UNCHANGED <<reply, nRequests, completed, undeclared_keys>>

(***************************************************************************)
(* nodes.py: broker_node.  A folder is named after the candidate's address *)
(* and its index idx in the list.                                          *)
(***************************************************************************)
NoFolder == [of |-> 0, idx |-> -1, street_view |-> 0, files |-> {}]

\* lines 417-426: the id of the candidate whose screenshot is moved into the
\* folder made in iteration i (0: none).  Only a local path exists on disk.
MovedShot(screenshots, i) ==
    IF i <= Len(screenshots) /\ screenshots[i].kind = "path" THEN screenshots[i].of ELSE 0

\* the files in the folder when the iteration reaches folders.append: the
\* screenshot if one was moved, and what write_file wrote (bash_tool.py lines
\* 41-48: write_file returns False instead of raising, the node ignores it).
\* The outcome of an iteration is "ok", "failed" (a step raised) or
\* "lease_unwritten" (write_file returned False for lease_draft.txt).
FilesWritten(outcome, moved) ==
    (IF moved # 0 THEN { "street_view.png" } ELSE {})
    \cup (IF outcome = "lease_unwritten" THEN {} ELSE { "lease_draft.txt" })
    \cup { "info.txt" }

RECURSIVE DossiersFrom(_, _, _, _)
\* the loop of lines 400-576 from candidate i on: the folders appended
DossiersFrom(properties, screenshots, outcomes, i) ==
    IF i > Len(properties) THEN <<>>
    ELSE (IF outcomes[i] # "failed"
          THEN << [of |-> properties[i].id, idx |-> i - 1, street_view |-> MovedShot(screenshots, i),
                   files |-> FilesWritten(outcomes[i], MovedShot(screenshots, i))] >>
          ELSE <<>>)
         \o DossiersFrom(properties, screenshots, outcomes, i + 1)

BrokerNode(outcomes) ==
    /\ pc = "broker"
    /\ st' = [st EXCEPT !.folders_created = DossiersFrom(st.properties, st.screenshots, outcomes, 1),
                        !.current_step = "broker_complete"]
    /\ pc' = "crm"
    /\ invoked' = Append(invoked, "broker")
    /\ UNCHANGED <<reply, nRequests, completed, undeclared_keys, browser>>

(***************************************************************************)
(* nodes.py: crm_node                                                      *)
(***************************************************************************)
\* folders[idx] if idx < len(folders) else ""  (idx 0-based, i = idx + 1)
FolderAt(folders, i) == IF i <= Len(folders) THEN folders[i] ELSE NoFolder

\* lines 697-714
ListingData(prop, folder_path, t) ==
    [prop |-> prop, folder_path |-> folder_path,
     image_url |-> IF prop.cloudinary_url # "" THEN [kind |-> "url", folder |-> NoFolder]
                   ELSE IF folder_path # NoFolder THEN [kind |-> "local", folder |-> folder_path]
                   ELSE [kind |-> "none", folder |-> NoFolder],
     created_at |-> t]

RECURSIVE ListingsFromAbort(_, _, _, _, _)
\* the loop leaving at the first listing whose write fails
ListingsFromAbort(properties, folders, outcomes, i, t) ==
    IF i > Len(properties) \/ outcomes[i] # "ok" THEN <<>>
    ELSE << ListingData(properties[i], FolderAt(folders, i), t) >>
         \o ListingsFromAbort(properties, folders, outcomes, i + 1, t)

RECURSIVE ListingsFrom(_, _, _, _, _)
\* the loop of lines 693-722 from candidate i on: the listings inserted
ListingsFrom(properties, folders, outcomes, i, t) ==
    IF i > Len(properties) THEN <<>>
    ELSE (IF outcomes[i] = "ok"
          THEN << ListingData(properties[i], FolderAt(folders, i), t) >> ELSE <<>>)
         \o ListingsFrom(properties, folders, outcomes, i + 1, t)

CrmNode(preference_write, outcomes) ==
    /\ pc = "crm"
    /\ \E facts \in {MessageFacts[st.message]} :
       \E learned \in {LearnPreferences(st.user_preferences, facts.pet, st.search_criteria)} :
          /\ user_profiles' = IF learned.updated /\ preference_write = "ok"
                              THEN update_user_preference(user_profiles, learned.prefs, now)
                              ELSE user_profiles
          /\ st' = [st EXCEPT !.user_preferences = learned.prefs, !.current_step = "crm_complete"]
    /\ listings' = listings \o ListingsFrom(st.properties, st.folders_created, outcomes, 1, now)
    /\ pc' = "finish"
    /\ invoked' = Append(invoked, "crm")
    /\ UNCHANGED <<reply, nRequests, completed, user_currencies, undeclared_keys, browser>>

(***************************************************************************)
(* workflow.py: run_agent, lines 233-305: the result of the graph          *)
(***************************************************************************)
\* result.get("from_cache", False)
FromCache(result) == result.from_cache = "true"

\* lines 260-276
PropertiesWithUrls(result) ==
    [ i \in 1..Len(result.properties) |->
        [prop |-> result.properties[i], currency |-> result.currency,
         folder_path |-> FolderAt(result.folders_created, i),
         image_url |-> IF i <= Len(result.folders_created)
                       THEN [kind |-> "local", folder |-> result.folders_created[i]]
                       ELSE [kind |-> "none", folder |-> NoFolder]] ]

\* the memory saved after every search that was not served from the cache,
\* empty ones included
RunAgentFinishAlwaysSaves ==
    /\ pc = "finish"
    /\ LET properties_with_urls == PropertiesWithUrls(st)
           memory == [last_query |-> st.message, criteria |-> st.search_criteria,
                      currency |-> st.currency, property_count |-> Len(properties_with_urls)]
       IN /\ IF ~FromCache(st)
             THEN SaveConversationMemory(memory) /\ invoked' = Append(invoked, "memory")
             ELSE UNCHANGED <<memoryVars, invoked>>
          /\ reply' = [kind |-> "returned", state |-> st.current_step, message |-> st.message,
                       properties |-> properties_with_urls, from_cache |-> FromCache(st)]
    /\ completed' = Append(completed, [message |-> st.message, criteria |-> st.search_criteria])
    /\ pc' = "idle"
    /\ st' = NoState
    /\ browser' = NoBrowser
    /\ UNCHANGED <<nRequests, undeclared_keys>>

RunAgentFinish ==
    /\ pc = "finish"
    /\ LET properties_with_urls == PropertiesWithUrls(st)
           memory == [last_query |-> st.message, criteria |-> st.search_criteria,
                      currency |-> st.currency, property_count |-> Len(properties_with_urls)]
       IN /\ IF properties_with_urls # <<>> /\ ~FromCache(st)
             THEN SaveConversationMemory(memory) /\ invoked' = Append(invoked, "memory")
             ELSE UNCHANGED <<memoryVars, invoked>>
          /\ reply' = [kind |-> "returned", state |-> st.current_step, message |-> st.message,
                       properties |-> properties_with_urls, from_cache |-> FromCache(st)]
    /\ completed' = Append(completed, [message |-> st.message, criteria |-> st.search_criteria])
    /\ pc' = "idle"
    /\ st' = NoState
    /\ browser' = NoBrowser
    /\ UNCHANGED <<nRequests, undeclared_keys>>

(***************************************************************************)
(* The steps of the pipeline of one request, for given sets of inputs      *)
(***************************************************************************)
\* every assignment of an outcome of outs to the candidates in the state
OutcomesFor(outs) == [ 1..Len(st.properties) -> outs ]

otherThanAgent == <<criteriaVars, now, cacheVars>>

StepScout(answers, credentials) ==
    (\E a \in answers, c \in credentials : ScoutExtract(a, c))
        /\ UNCHANGED <<otherThanAgent, memoryVars, dbVars>>

StepProvider(responses) ==
    (\E r \in responses : pc = "search" /\ SearchProvider(r))
        /\ UNCHANGED <<otherThanAgent, memoryVars, dbVars, agentVars>>

StepSkip == pc = "search" /\ SearchSkip /\ UNCHANGED <<otherThanAgent, memoryVars, dbVars, agentVars>>

StepCandidate ==
    (\E draw \in DistinctDraws : pc = "search" /\ SearchCandidate(draw))
        /\ UNCHANGED <<otherThanAgent, memoryVars, dbVars, agentVars>>

StepReturn == pc = "search" /\ SearchReturn /\ UNCHANGED <<otherThanAgent, memoryVars, dbVars, agentVars>>

StepScoutFinish == ScoutFinish /\ UNCHANGED <<otherThanAgent, memoryVars, dbVars>>

StepInspector(starts, outs, closes) ==
    (\E start \in starts, o \in OutcomesFor(outs), close \in closes : InspectorNode(start, o, close))
        /\ UNCHANGED <<otherThanAgent, searchVars, memoryVars, dbVars>>

StepBroker(outs) ==
    (\E o \in OutcomesFor(outs) : BrokerNode(o))
        /\ UNCHANGED <<otherThanAgent, searchVars, memoryVars, dbVars>>

StepCrm(writes, outs) ==
    (\E w \in writes, o \in OutcomesFor(outs) : CrmNode(w, o))
        /\ UNCHANGED <<otherThanAgent, searchVars, memoryVars>>

StepFinish == RunAgentFinish /\ UNCHANGED <<otherThanAgent, searchVars, dbVars>>

StepStart(messages, answers, currencies, limit) ==
    (\E m \in messages, a \in answers, d \in currencies :
        (MessageFacts[m].index.has_index \/ nRequests < limit) /\ RunAgentStart(m, a, d))
        /\ UNCHANGED <<otherThanAgent, searchVars, memoryVars>>

\* whether the compiled graph hands on the keys AgentState does not declare
\* is the graph library's choice, the same for every request of a run
UndeclaredKeys == { "kept", "dropped" }

InitAgent ==
    /\ AgentAtRest /\ undeclared_keys \in UndeclaredKeys
    /\ EmptyDb /\ EmptyMemory /\ EmptyCache /\ IdleCriteria /\ IdleSearch

(***************************************************************************)
(* SpecHistory: a long run of searches that all go well, with history      *)
(* queries between them                                                    *)
(***************************************************************************)
MaxSearches == 11

\* one priced listing and one page the irrelevance filter rejects
GoodResponse == [error |-> FALSE, results |-> << 1, 4 >>]

NextHistory ==
    \/ StepStart({SearchAustin, SearchBoston} \cup HistoryQueries, {"unavailable"}, {USD}, MaxSearches)
    \/ StepScout({[kind |-> "unavailable", raw |-> NoRaw]}, {"ok"})
    \/ StepProvider({GoodResponse})
    \/ StepSkip
    \/ StepCandidate
    \/ StepReturn
    \/ StepScoutFinish
    \/ StepInspector({"ok"}, {"uploaded"}, {"ok"})
    \/ StepBroker({"ok"})
    \/ StepCrm({"ok"}, {"ok"})
    \/ StepFinish

SpecHistory == InitAgent /\ [][NextHistory]_vars

\* the number of searches completed so far
SearchesDone == Len(memLog)

\* C7: after k completed searches, 2 <= k <= 11, "my first search" returns the
\* record of search #1, "my last search" returns the record of search #k, and
\* search_history has length min(k - 1, 10).
C7_FirstAndLast ==
    (pc = "idle" /\ SearchesDone >= 2 /\ SearchesDone <= 11 /\ Len(completed) = SearchesDone) =>
        /\ Len(conversation_memory.search_history) = Min2(SearchesDone - 1, 10)
        /\ (reply.kind = "returned" /\ reply.message = "my first search") =>
              /\ reply.state = "history_retrieval"
              /\ RecordOf(reply.historical_search.search) = memLog[1]
              /\ memLog[1].last_query = completed[1].message
        /\ (reply.kind = "returned" /\ reply.message = "my last search") =>
              /\ reply.state = "history_retrieval"
              /\ reply.historical_search.search = memLog[SearchesDone]
              /\ memLog[SearchesDone].last_query = completed[SearchesDone].message

C7_Witness ==
    /\ pc = "idle" /\ SearchesDone = 11
    /\ reply.kind = "returned" /\ reply.message = "my first search"
    /\ reply.state = "history_retrieval"
    /\ memLog[1] # memLog[2] /\ memLog[1] # memLog[11]

\* the search a history query names by its number
NamedSearch == [ m \in {"my 2nd search", "search number 3"} |->
                   IF m = "my 2nd search" THEN 2 ELSE 3 ]

\* C8: a history query that names the N-th search, 1 <= N <= len(search_history),
\* returns search_history[N-1] and labels it search #N; for N beyond the length
\* of the history the response is not-found.
C8_NthSearch ==
    (pc = "idle" /\ reply.kind = "returned" /\ reply.message \in DOMAIN NamedSearch) =>
        LET N == NamedSearch[reply.message]
            history == conversation_memory.search_history
        IN IF conversation_memory.exists /\ N <= Len(history)
           THEN /\ reply.state = "history_retrieval"
                /\ reply.historical_search.search = history[N]
                /\ reply.index_desc = [kind |-> "number", n |-> N]
           ELSE reply.state = "history_not_found"

\* the preferences stored for the user, as the profile document holds them
StoredProfile == TopLevelPreferences(get_user_preferences(user_profiles))

\* the number of times x occurs in seq
Occurrences(x, seq) == Cardinality({ i \in 1..Len(seq) : seq[i] = x })

\* C9: when the identical search completes twice in a row, the stored
\* budget_history holds its max_price as its two most recent entries (at most 5
\* entries in total) and the stored preferred_locations and preferred_bedrooms
\* hold its location and its bedroom count exactly once.
C9_RepeatedSearch ==
    (pc = "idle" /\ Len(completed) >= 2
        /\ completed[Len(completed)] = completed[Len(completed) - 1]) =>
        LET criteria == completed[Len(completed)].criteria
            budgets  == StoredProfile.budget_history
        IN /\ Len(budgets) >= 2 /\ Len(budgets) <= 5
           /\ budgets[Len(budgets)] = criteria.max_price
           /\ budgets[Len(budgets) - 1] = criteria.max_price
           /\ Occurrences(criteria.location, StoredProfile.preferred_locations) = 1
           /\ Occurrences(criteria.bedrooms, StoredProfile.preferred_bedrooms) = 1

\* the stored preferred_locations of a profile document
StoredLocations(profile) == TopLevelPreferences(get_user_preferences(profile)).preferred_locations

\* C10: the stored preferred_locations is append-only: every step keeps the
\* locations stored before it in place, appends at most the novel location of
\* the search at the end, and no location is stored twice.
C10_LocationsAppendOnly ==
    [][ /\ \/ StoredLocations(user_profiles') = StoredLocations(user_profiles)
           \/ /\ pc = "crm"
              /\ ~InSeq(st.search_criteria.location, StoredLocations(user_profiles))
              /\ StoredLocations(user_profiles')
                    = Append(StoredLocations(user_profiles), st.search_criteria.location)
        /\ \A i, j \in 1..Len(StoredLocations(user_profiles')) :
              StoredLocations(user_profiles')[i] = StoredLocations(user_profiles')[j] => i = j
      ]_vars

(***************************************************************************)
(* Spec: requests of any kind, stages that fail, and a search cache that   *)
(* a client of MongoDBTool may have filled (as the module's usage example  *)
(* does)                                                                   *)
(***************************************************************************)
MaxRequests == 2

\* a stored list as long as the default number of results
CachedDefault == [ i \in 1..DefaultMaxResults |-> CachedItem(i) ]

StepSaveCache(criteria, lists) ==
    (\E c \in criteria, ps \in lists : pc = "idle" /\ SaveSearchCache(c, ps))
        /\ UNCHANGED <<criteriaVars, searchVars, memoryVars, dbVars, agentVars>>

\* os.getenv("TAVILY_API_KEY"): set, unset, or the placeholder of .env.example
Credentials == { "ok", "absent", "placeholder" }

\* what the provider answers in the general specification
AgentResponses == { [error |-> TRUE, results |-> <<>>], GoodResponse, [error |-> FALSE, results |-> <<>>] }

Next ==
    \/ StepStart({SearchAustin, SearchBoston, "hello", "ok thanks", "what did i search for",
                  "my last search"},
                 IntentAnswers, {USD}, MaxRequests)
    \/ StepScout(CriteriaAnswers, Credentials)
    \/ StepProvider(AgentResponses)
    \/ StepSkip
    \/ StepCandidate
    \/ StepReturn
    \/ StepScoutFinish
    \/ StepInspector({"ok", "launch_failed"}, {"uploaded", "type_failed"}, {"ok"})
    \/ StepBroker({"ok", "failed"})
    \/ StepCrm({"ok", "failed"}, {"ok"})
    \/ StepFinish
    \/ StepSaveCache({ c \in CacheCriteria : c.location.v = "Austin" }, {CachedDefault})

Spec == InitAgent /\ [][Next]_vars

\* search_criteria as the dict get_cached_search is given
CriteriaDict(criteria) ==
    [location |-> StrVal(criteria.location), bedrooms |-> StrVal(criteria.bedrooms),
     max_price |-> IntVal(criteria.max_price), requirements |-> StrVal(criteria.requirements)]

\* what get_cached_search answers for the search in progress
CachedForSearch ==
    get_cached_search(search_cache, now, CriteriaDict(st.search_criteria),
                      MessageFacts[st.message].wanted)

\* C3: a search whose criteria match a fresh cache entry holding at least the
\* requested number of candidates is served from the cache: the flag is set,
\* search_properties, inspector_node and broker_node are not invoked,
\* conversation memory is left as it is, and the candidates returned are the
\* cached ones.
C3_CacheHitSkipsPipeline ==
    [][ (pc \in {"search", "inspector", "broker", "crm", "finish"} /\ CachedForSearch.hit) =>
            /\ st.from_cache = "true"
            /\ ~InSeq("search", invoked') /\ ~InSeq("inspector", invoked')
            /\ ~InSeq("broker", invoked')
            /\ conversation_memory' = conversation_memory
            /\ (pc' = "idle" /\ reply'.kind = "returned") =>
                  /\ reply'.from_cache
                  /\ [ i \in 1..Len(reply'.properties) |-> reply'.properties[i].prop ]
                        = CachedForSearch.properties
      ]_vars

\* the message of the run_agent call a step makes, and the intent found for it
\* when the call enters the search path
CallMessage == IF pc' = "scout" THEN st'.message ELSE reply'.message

\* C14: a run_agent call for a message resolved as a greeting, an invalid
\* message, a memory retrieval or a history lookup returns an empty candidate
\* list and invokes nothing beyond classification (and the history read): it
\* does not enter the search path and writes neither listings, preferences,
\* conversation memory, currency nor cache.
C14_NoSearchNoEffects ==
    [][ (pc = "idle" /\ (pc' = "scout" \/ reply' # reply)) =>
            /\ pc' = "scout" =>
                  /\ ~MessageFacts[CallMessage].index.has_index
                  /\ st'.intent \notin {"greeting", "invalid", "memory_retrieval"}
            /\ pc' # "scout" =>
                  /\ reply'.kind = "returned" /\ reply'.properties = <<>>
                  /\ reply'.state \in {"conversation", "memory_retrieval", "history_retrieval",
                                       "history_not_found"}
                  /\ invoked' \in { << "classify" >>, << "classify", "history" >> }
                  /\ UNCHANGED <<pc, st, dbVars, memoryVars, cacheVars, searchVars>>
      ]_vars

C14_Witness ==
    /\ pc = "idle" /\ reply.kind = "returned" /\ reply.message = "ok thanks"
    /\ reply.state = "conversation" /\ invoked = << "classify" >>
    /\ listings # <<>> /\ conversation_memory.exists

(***************************************************************************)
(* SpecPets: searches that ask for a pet-friendly rental and searches that *)
(* do not, over results that allow pets and results that do not say        *)
(***************************************************************************)
MaxPetSearches == 3

\* a listing that does not mention pets, then one that allows them
MixedResponse == [error |-> FALSE, results |-> << 2, 1 >>]

NextPets ==
    \/ StepStart({SearchAustinPets, SearchBoston}, {"unavailable"}, {USD}, MaxPetSearches)
    \/ StepScout({[kind |-> "unavailable", raw |-> NoRaw]}, {"ok"})
    \/ StepProvider({GoodResponse, MixedResponse})
    \/ StepSkip
    \/ StepCandidate
    \/ StepReturn
    \/ StepScoutFinish
    \/ StepInspector({"ok"}, {"uploaded"}, {"ok"})
    \/ StepBroker({"ok"})
    \/ StepCrm({"ok", "failed"}, {"ok"})
    \/ StepFinish

SpecPets == InitAgent /\ [][NextPets]_vars

\* the stored has_pet of a profile document
StoredHasPet(profile) == TopLevelPreferences(get_user_preferences(profile)).has_pet

\* C11: once has_pet = true is stored for the user, it stays stored as true
\* over every later step, completed searches that mention no pet included.
C11_HasPetStays ==
    [][ StoredHasPet(user_profiles) => StoredHasPet(user_profiles') ]_vars

C11_Witness ==
    /\ pc = "idle" /\ Len(completed) >= 2
    /\ completed[1].message = SearchAustinPets
    /\ completed[Len(completed)].message = SearchBoston
    /\ StoredProfile.has_pet
    /\ StoredProfile.preferred_locations = << "boston" >>

\* C13: every candidate run_agent returns for a search whose text asks for a
\* pet-friendly rental, and for every search once has_pet is stored for the
\* user, has pet_friendly = true.
C13_OnlyPetFriendly ==
    [][ (pc = "finish" /\ pc' = "idle" /\ reply'.kind = "returned"
            /\ (MessageFacts[st.message].pet \/ StoredHasPet(user_profiles))) =>
            \A i \in 1..Len(reply'.properties) : reply'.properties[i].prop.pet_friendly
      ]_vars

(***************************************************************************)
(* SpecCurrency: searches that go well, for messages in which              *)
(* detect_currency finds US dollars or Swiss francs                        *)
(***************************************************************************)
MaxCurrencyRequests == 2

\* currency_tool.py: what detect_currency returns for a message naming Zurich
CHF == [code |-> "CHF", symbol |-> "CHF"]

NextCurrency ==
    \/ StepStart({SearchAustin}, {"unavailable"}, {USD, CHF}, MaxCurrencyRequests)
    \/ StepScout({[kind |-> "unavailable", raw |-> NoRaw]}, {"ok"})
    \/ StepProvider({GoodResponse})
    \/ StepSkip
    \/ StepCandidate
    \/ StepReturn
    \/ StepScoutFinish
    \/ StepInspector({"ok"}, {"uploaded"}, {"ok"})
    \/ StepBroker({"ok"})
    \/ StepCrm({"ok"}, {"ok"})
    \/ StepFinish

SpecCurrency == InitAgent /\ [][NextCurrency]_vars

\* C12: a search request of a user whose stored currency is not USD either
\* uses the stored currency and leaves it stored (the detected currency is USD
\* or the stored one), or uses a detected currency that differs from both USD
\* and the stored one, which is then what is stored.
C12_StoredCurrencySticks ==
    [][ (pc = "idle" /\ pc' = "scout" /\ get_user_currency(user_currencies).code # "USD") =>
            \/ /\ st'.currency = get_user_currency(user_currencies)
               /\ get_user_currency(user_currencies') = get_user_currency(user_currencies)
            \/ /\ st'.currency.code \notin { "USD", get_user_currency(user_currencies).code }
               /\ get_user_currency(user_currencies') = st'.currency
      ]_vars

LaterStages == { "inspector", "broker", "crm", "memory" }

\* C17: when the provider's credential is absent or a placeholder, or the
\* provider call errors, search_properties raises; run_agent then raises to its
\* caller instead of returning, and for that request the inspector, the broker,
\* the crm and the writes of listings, preferences and conversation memory are
\* never reached.
C17_SearchFailureIsFatal ==
    [][ /\ \A r \in AgentResponses :
              (pc = "search" /\ SearchProvider(r) /\ (spCall.credential # "ok" \/ r.error))
                  => spStatus' = "raised"
        /\ (pc = "search" /\ spStatus = "raised") =>
              /\ pc' = "idle" /\ reply'.kind = "raised" /\ reply'.message = st.message
              /\ \A i \in 1..Len(invoked') : invoked'[i] \notin LaterStages
              /\ UNCHANGED <<listings, user_profiles, memoryVars, completed>>
      ]_vars

\* a request failed on the placeholder credential after an earlier request had
\* gone through the whole pipeline and persisted its listings
C17_Witness ==
    /\ pc = "idle" /\ reply.kind = "raised" /\ reply.error = "Tavily API key not configured"
    /\ invoked = << "classify", "currency", "scout", "search" >>
    /\ Len(completed) = 1 /\ listings # <<>> /\ conversation_memory.exists

(***************************************************************************)
(* SpecDossier: searches whose candidates meet every outcome of the        *)
(* browser, of the screenshot steps and of the dossier creation            *)
(***************************************************************************)
MaxDossierRequests == 1

InspectorOutcomes == { "uploaded", "local", "noshot", "type_failed", "click_failed", "raised" }

BrokerOutcomes == { "ok", "failed", "lease_unwritten" }

\* mongo_tool.update_user_preference returns or raises
PreferenceWrites == { "ok", "failed" }

\* mongo_tool.insert_listing returns or raises
InsertOutcomes == { "ok", "failed" }

NextDossier ==
    \/ StepStart({SearchAustin}, {"unavailable"}, {USD}, MaxDossierRequests)
    \/ StepScout({[kind |-> "unavailable", raw |-> NoRaw]}, {"ok"})
    \/ StepProvider({GoodResponse, MixedResponse})
    \/ StepSkip
    \/ StepCandidate
    \/ StepReturn
    \/ StepScoutFinish
    \/ StepInspector(StartOutcomes, InspectorOutcomes, CloseOutcomes)
    \/ StepBroker(BrokerOutcomes)
    \/ StepCrm(PreferenceWrites, InsertOutcomes)
    \/ StepFinish

SpecDossier == InitAgent /\ [][NextDossier]_vars

\* the entry of screenshots the claim gives a candidate whose iteration ended
\* with the given outcome
EntryFor(outcome, prop) ==
    IF outcome = "uploaded" THEN "url" ELSE IF outcome = "local" THEN "path" ELSE "none"

\* C18: after inspector_node has processed a non-empty batch with a started
\* browser, screenshots holds one entry per candidate, entry i belonging to
\* candidate i (URL or local path when candidate i succeeded, null when one of
\* its steps failed); and broker_node never moves the screenshot of another
\* candidate into a candidate's folder.
C18_ScreenshotsAligned ==
    [][ /\ \A o \in OutcomesFor(InspectorOutcomes), close \in CloseOutcomes :
              (st.properties # <<>> /\ InspectorNode("ok", o, close)) =>
                  /\ Len(st'.screenshots) = Len(st.properties)
                  /\ \A i \in 1..Len(st.properties) :
                        /\ i <= Len(st'.screenshots)
                        /\ st'.screenshots[i].kind = EntryFor(o[i], st.properties[i])
                        /\ st'.screenshots[i].kind # "none" =>
                              st'.screenshots[i].of = st.properties[i].id
        /\ (pc = "broker" /\ pc' = "crm") =>
              \A k \in 1..Len(st'.folders_created) :
                  st'.folders_created[k].street_view \in { 0, st'.folders_created[k].of }
      ]_vars

\* C19: after broker_node, folders_created is index-aligned with the
\* candidates: the folder crm_node persists and run_agent returns for a
\* candidate is the folder created for that candidate (none when its dossier
\* failed), also when the dossier of an earlier candidate failed.
C19_FoldersAligned ==
    /\ \A k \in 1..Len(listings) :
          listings[k].folder_path = NoFolder \/ listings[k].folder_path.of = listings[k].prop.id
    /\ (pc = "idle" /\ reply.kind = "returned") =>
          \A i \in 1..Len(reply.properties) :
              \/ reply.properties[i].folder_path = NoFolder
              \/ reply.properties[i].folder_path.of = reply.properties[i].prop.id

\* C20: on a non-empty batch the browser session is opened once and, whatever
\* fails in the batch or part-way through the setup, everything that was
\* opened has been closed once when inspector_node returns (unless the
\* teardown itself failed); the node returns in every case.
C20_SessionClosedOnce ==
    (pc = "broker" /\ st.properties # <<>>) =>
        /\ browser.starts = 1 /\ browser.closes <= 1
        /\ browser.teardown # "browser_failed" => browser.closed = browser.opened
        /\ reply.kind # "raised"

\* C21: in crm_node the preference write and the listing writes are
\* independent: whatever the preference write does, exactly the listings whose
\* own write succeeds are added, in order, after the ones already stored, a
\* failed listing write stops no later one, nothing stored is taken back, and
\* the node completes.
C21_CrmWritesIndependent ==
    [][ \A w \in PreferenceWrites, o \in OutcomesFor(InsertOutcomes) :
            (pc = "crm" /\ CrmNode(w, o)) =>
                LET added == SubSeq(listings', Len(listings) + 1, Len(listings'))
                    ok    == SelectSeq([ i \in 1..Len(st.properties) |-> i ], LAMBDA i : o[i] = "ok")
                IN /\ pc' = "finish" /\ st'.current_step = "crm_complete" /\ reply' = reply
                   /\ Len(listings') >= Len(listings)
                   /\ SubSeq(listings', 1, Len(listings)) = listings
                   /\ Len(added) = Len(ok)
                   /\ \A k \in 1..Len(ok) : k <= Len(added) /\ added[k].prop = st.properties[ok[k]]
                   /\ (w = "failed") => user_profiles' = user_profiles
                   /\ (w = "ok" /\ undeclared_keys = "kept") => user_profiles'.exists
      ]_vars

\* the preference write failed, the write of the first of two listings failed,
\* and the second listing is stored
C21_Witness ==
    /\ pc = "finish" /\ undeclared_keys = "kept" /\ ~user_profiles.exists
    /\ Len(st.properties) = 2 /\ Len(listings) = 1 /\ listings[1].prop = st.properties[2]

\* the files a listing record with a folder references: screenshot_path,
\* lease_path, info_path
ReferencedFiles == { "street_view.png", "lease_draft.txt", "info.txt" }

\* C24: for every listing persisted by crm_node with a non-empty folder_path,
\* the directory holds the three artifacts the record references: the image,
\* the lease document and the info document.
C24_ArtifactsExist ==
    \A k \in 1..Len(listings) :
        listings[k].folder_path # NoFolder => ReferencedFiles \subseteq listings[k].folder_path.files

\* workflow.py lines 64-79 and 216-291: the stages of the search path in the
\* order of the graph's edges ("search" is the call of search_properties
\* inside scout_node)
SearchPathStages ==
    << "classify", "currency", "scout", "search", "inspector", "broker", "crm", "memory" >>

IsPrefix(a, b) == Len(a) <= Len(b) /\ a = SubSeq(b, 1, Len(a))

\* C26: within the search path of one request the stages run in the order
\* scout, inspector, broker, crm, conversation-memory update, each at most
\* once; no listing is persisted before the dossiers of the batch are done and
\* conversation memory is written only after persistence.
C26_StagesInOrder ==
    [][ /\ (Len(invoked') >= 2 /\ invoked'[2] = "currency") => IsPrefix(invoked', SearchPathStages)
        /\ listings' # listings =>
              /\ pc = "crm" /\ st.current_step = "broker_complete"
              /\ invoked = SubSeq(SearchPathStages, 1, 6)
        /\ conversation_memory' # conversation_memory =>
              /\ pc = "finish" /\ st.current_step = "crm_complete"
              /\ invoked = SubSeq(SearchPathStages, 1, 7) /\ invoked' = SearchPathStages
      ]_vars

\* a request went through every stage, stored listings and then its memory
C26_Witness ==
    /\ pc = "idle" /\ reply.kind = "returned" /\ reply.state = "crm_complete"
    /\ invoked = SearchPathStages /\ listings # <<>> /\ conversation_memory.exists

\* C29: for every message that extract_search_index_from_query recognises as
\* a history-index query, run_agent performs the history lookup and returns
\* its result (history_retrieval or history_not_found) before the generic
\* intent classifier is run for that message, and the message never enters
\* the search path.
C29_HistoryBeforeClassifier ==
    [][ /\ (pc = "idle" /\ pc' = "scout") => ~MessageFacts[st'.message].index.has_index
        /\ (pc = "idle" /\ reply' # reply /\ reply'.kind = "returned"
                /\ MessageFacts[reply'.message].index.has_index) =>
              /\ reply'.state \in {"history_retrieval", "history_not_found"}
              /\ pc' = "idle" /\ nRequests' = nRequests
              /\ ~InSeq("classify", invoked')
      ]_vars

(***************************************************************************)
(* SpecLearn: crm_node called on input states whose preferences carry a    *)
(* budget history, empty, short, at the cap and beyond it                  *)
(***************************************************************************)
LearnHistories ==
    { <<>>, << 1500 >>, << 1000, 1200, 1400, 1600 >>, << 1000, 1200, 1400, 1600, 1800 >>,
      << 900, 1000, 1200, 1400, 1600, 1800 >>, << 2000, 2000, 2000, 2000, 2000 >> }

LearnPrices == { 0, 1500, 2001 }

PrefsWith(h) ==
    [EmptyPrefs EXCEPT !.budget_history = h,
                       !.typical_budget = IF h = <<>> THEN 0 ELSE Sum(h) \div Len(h)]

\* the state broker_node hands to crm_node
CrmInput(h, p) ==
    [NoState EXCEPT !.message = SearchAustin, !.intent = "search",
                    !.user_preferences = PrefsWith(h),
                    !.current_step = "broker_complete", !.currency = USD,
                    !.search_criteria = [location |-> "Austin", max_price |-> p,
                                         bedrooms |-> "2", requirements |-> "none"]]

InitLearn ==
    /\ EmptyMemory /\ EmptyCache /\ IdleCriteria /\ IdleSearch
    /\ user_currencies = NoDoc /\ listings = <<>>
    /\ pc = "crm" /\ reply = NoReply /\ nRequests = 1 /\ completed = <<>>
    /\ invoked = SubSeq(SearchPathStages, 1, 6)
    /\ undeclared_keys = "kept" /\ browser = NoBrowser
    /\ \E h \in LearnHistories, p \in LearnPrices :
          /\ st = CrmInput(h, p)
          /\ user_profiles \in { NoDoc, update_user_preference(NoDoc, PrefsWith(h), now) }

NextLearn ==
    \/ StepCrm(PreferenceWrites, InsertOutcomes)
    \/ StepFinish

SpecLearn == InitLearn /\ [][NextLearn]_vars

\* h followed by p, cut to its last 5 elements
LastFiveWith(h, p) ==
    [ i \in 1..(IF Len(h) + 1 > 5 THEN 5 ELSE Len(h) + 1) |->
        Append(h, p)[i + (IF Len(h) + 1 > 5 THEN Len(h) + 1 - 5 ELSE 0)] ]

\* C30: given the preferences of its input state with budget history h, and
\* criteria with a non-zero max_price p, crm_node writes budget_history equal
\* to the last 5 elements of h followed by p (oldest evicted first, never
\* more than 5 entries) and typical_budget equal to the integer (floor)
\* average of the written budget_history.
C30_BudgetHistoryBounded ==
    [][ \A w \in PreferenceWrites :
            (st.search_criteria.max_price # 0 /\ CrmNode(w, <<>>)) =>
                \E written \in { LastFiveWith(st.user_preferences.budget_history,
                                               st.search_criteria.max_price) } :
                    /\ Len(written) <= 5
                    /\ st'.user_preferences.budget_history = written
                    /\ st'.user_preferences.typical_budget * Len(written) <= Sum(written)
                    /\ Sum(written) < (st'.user_preferences.typical_budget + 1) * Len(written)
                    /\ w = "ok" =>
                          /\ user_profiles'.exists
                          /\ user_profiles'.budget_history = written
                          /\ user_profiles'.typical_budget = st'.user_preferences.typical_budget
      ]_vars

\* the history at the cap received, its oldest budget evicted, the average
\* rounded down
C30_Witness ==
    /\ pc = "finish" /\ st.current_step = "crm_complete"
    /\ st.user_preferences.budget_history = << 1200, 1400, 1600, 1800, 2001 >>
    /\ user_profiles.exists
    /\ user_profiles.budget_history = << 1200, 1400, 1600, 1800, 2001 >>
    /\ user_profiles.typical_budget = 1600

\* C31: when no price can be extracted for a result, the price synthesized
\* by extract_real_price for cap max_price lies between 60% of the cap and
\* the cap inclusive and is a multiple of 50.
C31_SynthesizedInRange ==
    [][ (spStatus = "running" /\ spLog' = Append(spLog, "synthesized")) =>
            \E price \in { spProps'[Len(spProps')].price } :
                /\ 10 * price >= 6 * spCall.max_price
                /\ price <= spCall.max_price
                /\ price % PriceStep = 0
      ]_vars

\* C32: the preferences written by crm_node at the end of one completed
\* search are exactly the preferences run_agent loads into the pipeline state
\* at the start of the same user's next request: update_user_preference
\* followed by get_user_preferences and the state's user_preferences field is
\* a round trip.
C32_PreferencesRoundTrip ==
    [][ (pc = "idle" /\ pc' = "scout") =>
            st'.user_preferences = TopLevelPreferences(get_user_preferences(user_profiles))
      ]_vars

(***************************************************************************)
(* SpecWording: searches that go well, one of them worded with "latest"    *)
(***************************************************************************)
MaxWordingRequests == 2

NextWording ==
    \/ StepStart({SearchAustin, SearchLatestAustin}, {"unavailable"}, {USD}, MaxWordingRequests)
    \/ StepScout({[kind |-> "unavailable", raw |-> NoRaw]}, {"ok"})
    \/ StepProvider({GoodResponse, MixedResponse})
    \/ StepSkip
    \/ StepCandidate
    \/ StepReturn
    \/ StepScoutFinish
    \/ StepInspector({"ok"}, {"uploaded"}, {"ok"})
    \/ StepBroker({"ok"})
    \/ StepCrm({"ok"}, {"ok"})
    \/ StepFinish

SpecWording == InitAgent /\ [][NextWording]_vars

\* C33: every message that classify_intent classifies as search reaches the
\* search path of run_agent (currency resolution and the pipeline stages),
\* including search requests whose wording contains "first", "last",
\* "latest", "recent" or "previous".
C33_SearchReachesPipeline ==
    [][ \A m \in {SearchAustin, SearchLatestAustin} :
            (MessageFacts[m].intent["unavailable"] = "search" /\ RunAgentStart(m, "unavailable", USD)) =>
                /\ pc' = "scout" /\ st'.message = m
                /\ invoked' = << "classify", "currency" >>
      ]_vars

\* C34: a search request that completes the pipeline with zero returned
\* candidates leaves the user's conversation memory unchanged, while its
\* preference learning in crm_node is still applied.
C34_EmptySearchKeepsMemory ==
    [][ /\ pc # "finish" => conversation_memory' = conversation_memory
        /\ (pc = "finish" /\ pc' = "idle" /\ reply'.kind = "returned" /\ reply'.properties = <<>>) =>
              conversation_memory' = conversation_memory
        /\ (pc = "crm" /\ st.properties = <<>> /\ CrmNode("ok", <<>>)) =>
              /\ st.search_criteria.location \notin {"", NotSpecified} =>
                    InSeq(st.search_criteria.location, StoredLocations(user_profiles'))
              /\ st.search_criteria.max_price # 0 =>
                    /\ StoredProfile'.budget_history # <<>>
                    /\ StoredProfile'.budget_history[Len(StoredProfile'.budget_history)]
                          = st.search_criteria.max_price
              /\ MessageFacts[st.message].pet => StoredHasPet(user_profiles')
      ]_vars

\* a search for Boston that found nothing, after a search for Austin that
\* found a listing: the memory still holds the Austin search, the profile has
\* learned Boston
C34_Witness ==
    /\ pc = "idle" /\ reply.kind = "returned" /\ reply.state = "crm_complete"
    /\ reply.message = SearchBoston /\ reply.properties = <<>>
    /\ conversation_memory.exists
    /\ conversation_memory.last_search.last_query = SearchAustin
    /\ conversation_memory.total_searches = 1
    /\ InSeq("boston", StoredProfile.preferred_locations)

\* C35: for every candidate of a completed search, the image_url that
\* run_agent returns to the caller equals the image_url that crm_node
\* persisted for that candidate: the durable upload URL when the upload
\* succeeded, otherwise the path constructed under the candidate's folder.
C35_ImageUrlAgrees ==
    (pc = "idle" /\ reply.kind = "returned" /\ reply.state = "crm_complete") =>
        \A i \in 1..Len(reply.properties), k \in 1..Len(listings) :
            listings[k].prop = reply.properties[i].prop =>
                /\ reply.properties[i].image_url = listings[k].image_url
                /\ reply.properties[i].prop.cloudinary_url # "" =>
                      reply.properties[i].image_url.kind = "url"

\* C36: for every positive max_price, including values below 400,
\* search_properties returns its candidates normally when a relevant result
\* has no extractable price: price synthesis produces a value <= max_price
\* and does not turn the request into a search failure.
C36_SynthesisNeverFails ==
    [][ (spStatus = "running" /\ spIdx < Len(spResults) /\ spIdx' = spIdx + 1
            /\ spCall.max_price > 0
            /\ ~PoolFeatures[CurrentResult].irrelevant
            /\ PoolFeatures[CurrentResult].prices = <<>>) =>
            /\ spStatus' = "running"
            /\ Len(spProps') = Len(spProps) + 1
            /\ spProps'[Len(spProps')].price <= spCall.max_price
      ]_vars

\* C37: after exactly one completed non-cached search for a user, the history
\* query "my first search" returns the record of that search (the same record
\* "my last search" returns) rather than a not-found response.
C37_FirstOfOne ==
    (pc = "idle" /\ SearchesDone = 1 /\ Len(completed) = 1
        /\ reply.kind = "returned" /\ reply.message = "my first search") =>
        /\ reply.state = "history_retrieval"
        /\ reply.historical_search.found
        /\ RecordOf(reply.historical_search.search) = memLog[1]

====
